---- MODULE Spec2Model ----
(***************************************************************************)
(* slick_logger: asynchronous logger.  Producer threads reserve a slot of  *)
(* a ring buffer, store a deferred record in it and publish it; a single   *)
(* writer thread reads published slots and hands each entry to the sinks.  *)
(* Source: include/slick_logger/logger.hpp (Logger and the sinks).         *)
(***************************************************************************)
EXTENDS Integers, Sequences, FiniteSets, TLC

(* ---------------------------------------------------------------- levels *)
TRACE == 0
DEBUG == 1
INFO == 2
WARN == 3
ERR == 4
FATAL == 5

(* ---------------------------------------------------------------- bounds *)
\* number of records accepted in one behaviour
MaxLogs == 3
\* largest queue_size handed to init()
MaxQueueSize == 2
\* records logged in a behaviour of SpecFanout
MaxFanoutLogs == 2
\* records logged in a behaviour of SpecLifecycle
MaxLifeLogs == 2
\* init() calls in a behaviour of SpecLifecycle
MaxSessions == 2
\* records logged in a behaviour of SpecErrors
MaxErrorLogs == 3
\* largest max_files and max_file_size (bytes) of a RotationConfig
MaxFiles == 3
MaxFileSize == 3
\* largest size of a formatted line, newline included (bytes)
MaxLineSize == 2
\* lines written to a file sink in one behaviour; days the clock runs through
MaxWrites == 5
MaxDays == 3
\* width of uint32_t in the model; size_t is twice as wide, as on the 64-bit
\* targets of the library
CapBits == 4

Producers == {"p1", "p2"}
Main == "main"
Threads == Producers \cup {Main}
Sinks == {"s1", "s2"}
\* levels the producers log with, levels the global filter is set to
LogLevels == {DEBUG, WARN}
GlobalLevels == {TRACE, WARN}
QueueSizes == 1..MaxQueueSize
\* a record is identified by the thread that logged it and by its rank among
\* the records of that thread; NoId is the formatter of a slot never written
NoId == [t |-> "none", n |-> 0]
Ids == {[t |-> p, n |-> k] : p \in Producers, k \in 1..MaxLogs}

VARIABLES
    running_,      \* std::atomic<bool> running_
    queue_,        \* slick::SlickQueue<LogEntry>* queue_ (gen = 0: nullptr)
    sinks_,        \* std::vector<std::shared_ptr<ISink>> sinks_
    read_index_,   \* uint64_t read_index_
    log_level_,    \* std::atomic<LogLevel> log_level_
    writer,        \* the writer thread: position, current batch
    pc,            \* position of every application thread
    loc,           \* locals of a producer inside log()
    mop,           \* operation the main thread is executing
    sinkOut,       \* per sink object: the lines it has written
    flushed,       \* per sink object: number of lines flushed so far
    min_level,     \* per sink object: its own minimum level
    dedicated,     \* per sink object: its dedicated flag
    renders,       \* per record: number of invocations of its formatter
    recs,          \* history: per thread, the calls that logged a record
    session,       \* history: number of init() calls so far
    sessSinks,     \* history: the sink collection at the last init()
    sessCap,       \* history: the capacity of the queue of the last init()
    atStop,        \* history: records published when the writer saw the stop
    stopRace,      \* history: running_ was cleared while a log() was in flight
    uaf,           \* history: a producer touched a queue that was deleted
    rejected,      \* history: why the log() calls that returned at once did so
    life,          \* history: threads and queues alive, the last call that returned
    disk           \* the log directory and the file sink that writes into it

vars == <<running_, queue_, sinks_, read_index_, log_level_, writer, pc, loc,
          mop, sinkOut, flushed, min_level, dedicated, renders, recs, session,
          sessSinks, sessCap, atStop, stopRace, uaf, rejected, life, disk>>

\* everything but the log directory
loggerVars == <<running_, queue_, sinks_, read_index_, log_level_, writer, pc, loc,
                mop, sinkOut, flushed, min_level, dedicated, renders, recs, session,
                sessSinks, sessCap, atStop, stopRace, uaf, rejected, life>>

(* ------------------------------------------------------------ ring buffer *)
NoIndex == -1
EmptySlot == [data_index |-> NoIndex, level |-> TRACE, fmt |-> NoId, ts |-> NoId]
NullQueue == [gen |-> 0, cap |-> 0, reserved |-> 0, slots |-> <<>>]

NewQueue(g, capacity) ==
    [gen |-> g, cap |-> capacity, reserved |-> 0,
     slots |-> [i \in 0..(capacity - 1) |-> EmptySlot]]

initial_reading_index(q) == q.reserved

SlotOf(q, index) == index % q.cap

reserve(q) == [q EXCEPT !.reserved = @ + 1]

publish(q, index) == [q EXCEPT !.slots[SlotOf(q, index)].data_index = index]

\* length of the run of consecutively published slots that starts at physical
\* slot s holding index first, without wrapping past the end of the array
RECURSIVE RunLength(_, _, _)
RunLength(q, s, first) ==
    IF s < q.cap /\ q.slots[s].data_index = first
    THEN 1 + RunLength(q, s + 1, first + 1)
    ELSE 0

\* read(read_index): nothing when the slot at the cursor holds no index or an
\* index older than the cursor; otherwise the contiguous run that starts
\* there, the cursor moving past it
read(q, cursor) ==
    LET s == SlotOf(q, cursor)
        first == q.slots[s].data_index
    IN IF first = NoIndex \/ first < cursor
       THEN [ptr |-> NoIndex, count |-> 0, cursor |-> cursor]
       ELSE LET n == RunLength(q, s, first)
            IN [ptr |-> s, count |-> n, cursor |-> first + n]

(* ---------------------------------------------------------------- helpers *)
RECURSIVE BitAnd(_, _)
BitAnd(a, b) ==
    IF a = 0 \/ b = 0 THEN 0
    ELSE (a % 2) * (b % 2) + 2 * BitAnd(a \div 2, b \div 2)

RECURSIVE BitOr(_, _)
BitOr(a, b) ==
    IF a = 0 THEN b
    ELSE IF b = 0 THEN a
    ELSE (IF a % 2 = 1 \/ b % 2 = 1 THEN 1 ELSE 0) + 2 * BitOr(a \div 2, b \div 2)

\* a >> n
RECURSIVE Shr(_, _)
Shr(a, n) == IF n = 0 \/ a = 0 THEN a ELSE Shr(a \div 2, n - 1)

RECURSIVE Pow2(_)
Pow2(n) == IF n = 0 THEN 1 ELSE 2 * Pow2(n - 1)
\* number of values of uint32_t and of size_t
Uint32 == Pow2(CapBits)
SizeT == Pow2(2 * CapBits)

\* "Ensure queue_size is power of 2", in size_t arithmetic
RoundQueueSize(queue_size) ==
    IF BitAnd(queue_size, queue_size - 1) # 0
    THEN LET t0 == queue_size - 1
             t1 == BitOr(t0, Shr(t0, 1))
             t2 == BitOr(t1, Shr(t1, 2))
             t3 == BitOr(t2, Shr(t2, 4))
             t4 == BitOr(t3, Shr(t3, 8))
             t5 == BitOr(t4, Shr(t4, 16))
             t6 == BitOr(t5, Shr(t5, 32))
         IN (t6 + 1) % SizeT
    ELSE queue_size

\* new slick::SlickQueue<LogEntry>(static_cast<uint32_t>(queue_size))
QueueCapacity(queue_size) == RoundQueueSize(queue_size) % Uint32

Range(f) == {f[i] : i \in DOMAIN f}

NoLoc == [level |-> TRACE, id |-> NoId, index |-> 0, gen |-> 0]
IdleWriter == [pc |-> "none", ptr |-> 0, count |-> 0, i |-> 0]

(* ------------------------------------------------------------------ sinks *)
\* FileSink::format_log_entry: the level string of the entry, its timestamp
\* and the message its formatter renders
format_log_entry(entry) ==
    [level |-> entry.level, msg |-> entry.fmt, ts |-> entry.ts]

\* FileSink::write / ConsoleSink::write: one formatted line is appended; the
\* formatter of the entry is invoked by format_log_entry
SinkWrite(st, s, entry) ==
    [out |-> [st.out EXCEPT ![s] = Append(@, format_log_entry(entry))],
     rnd |-> [st.rnd EXCEPT ![entry.fmt] = @ + 1]]

\* the broadcast does not look at the dedicated flag
SinkAccepts_IgnoresDedicated(s, level) == min_level[s] <= level

\* the sink's own filter for a broadcast record
SinkAccepts(s, level) == ~dedicated[s] /\ min_level[s] <= level

\* the sink's filter drops the records at its own level as well
should_log_AboveOnly(s, level) == min_level[s] < level

\* the sink's own filter for a record logged directly to it
should_log(s, level) == min_level[s] <= level

\* the loop over the sinks stops after the first sink
WriteToSinks_FirstOnly(k, entry, st) ==
    IF k = 1 /\ Len(sinks_) >= 1 /\ SinkAccepts(sinks_[1], entry.level)
    THEN SinkWrite(st, sinks_[1], entry)
    ELSE st

\* write_log_entry, inner loop: "Write to all configured sinks"
RECURSIVE WriteToSinks(_, _, _)
WriteToSinks(k, entry, st) ==
    IF k > Len(sinks_) THEN st
    ELSE WriteToSinks(k + 1, entry,
                      IF SinkAccepts(sinks_[k], entry.level)
                      THEN SinkWrite(st, sinks_[k], entry)
                      ELSE st)

\* write_log_entry, trailing loop: "Flush all sinks"
FlushSinks(out) ==
    [s \in Sinks |-> IF s \in Range(sinks_) THEN Len(out[s]) ELSE flushed[s]]

(* ------------------------------------------------------------------- Init *)
\* history of the object's life: the writer threads and queues alive, whether
\* std::terminate was called, the exception that left the writer thread, and
\* the last call of the application that returned (early: it returned at its
\* first test)
NoLife == [threads |-> 0, queues |-> 0, queue_size |-> 0,
           aborted |-> FALSE, thrown |-> "none",
           done |-> [op |-> "none", early |-> FALSE]]
Returned(op, early) == [life EXCEPT !.done = [op |-> op, early |-> early]]

(* ------------------------------------- RotatingFileSink, DailyFileSink *)
\* a file of the log directory: whether it exists, and its lines; a line is
\* its serial number and its size in bytes (formatted.length() + 1)
NoFile == [exists |-> FALSE, lines |-> <<>>]
EmptyFile == [exists |-> TRUE, lines |-> <<>>]
Line(n, len) == [n |-> n, len |-> len]
LineSizes == 1..MaxLineSize
Days == 1..MaxDays

RECURSIVE FileSize(_)
FileSize(lines) ==
    IF lines = <<>> THEN 0 ELSE lines[1].len + FileSize(Tail(lines))

\* the log directory before a file sink was constructed: no base file (base),
\* no rotated sibling <stem>_k (rot[k]), no dated file <stem>_<date> (dated);
\* the members of the sink: its stream (open), current_file_size_ (size),
\* config_ (max_file_size, max_files), current_date_ (date); the clock
\* (today); history: the lines handed to write() (written) and the day each
\* was handed over (days), the content of the base at every rotation, the
\* latest first (rotations), the exception that left write() (thrown)
NoDisk ==
    [kind |-> "none", base |-> NoFile,
     rot |-> [k \in 1..(MaxFiles + 1) |-> NoFile],
     dated |-> [d \in Days |-> NoFile],
     open |-> FALSE, size |-> 0, max_file_size |-> 0, max_files |-> 0,
     date |-> 1, today |-> 1,
     written |-> <<>>, days |-> <<>>, rotations |-> <<>>, thrown |-> "none"]

\* the process stops (crash, kill, power loss) right after a step of
\* rotate_files: after the close, after the removal of the oldest file, after
\* the rename to <stem>_i, after the reopen
StopAfterRename(i) == "stop_rename_" \o ToString(i)
StopFaults ==
    {"stop_close", "stop_remove", "stop_reopen"}
        \cup {StopAfterRename(i) : i \in 1..MaxFiles}

\* the loop of rotate_files: for (i = max_files - 1; i > 0; --i) rename the
\* base (i = 1) or <stem>_(i-1) to <stem>_i; a failing rename throws
RECURSIVE ShiftFiles(_, _, _)
ShiftFiles(d, i, fault) ==
    IF i <= 0 THEN d
    ELSE LET src == IF i = 1 THEN d.base ELSE d.rot[i - 1]
             moved == IF i = 1
                      THEN [d EXCEPT !.rot[1] = src, !.base = NoFile]
                      ELSE [d EXCEPT !.rot[i] = src, !.rot[i - 1] = NoFile]
         IN IF ~src.exists THEN ShiftFiles(d, i - 1, fault)
            ELSE IF fault = "rename" THEN [d EXCEPT !.thrown = "rename"]
            ELSE IF fault = StopAfterRename(i) THEN [moved EXCEPT !.thrown = "stopped"]
            ELSE ShiftFiles(moved, i - 1, fault)

\* the renames in ascending order: the base to <stem>_1 first
RECURSIVE ShiftFilesUp(_, _, _)
ShiftFilesUp(d, i, fault) ==
    IF i > d.max_files - 1 THEN d
    ELSE LET src == IF i = 1 THEN d.base ELSE d.rot[i - 1]
             moved == IF i = 1
                      THEN [d EXCEPT !.rot[1] = src, !.base = NoFile]
                      ELSE [d EXCEPT !.rot[i] = src, !.rot[i - 1] = NoFile]
         IN IF ~src.exists THEN ShiftFilesUp(d, i + 1, fault)
            ELSE IF fault = "rename" THEN [d EXCEPT !.thrown = "rename"]
            ELSE IF fault = StopAfterRename(i) THEN [moved EXCEPT !.thrown = "stopped"]
            ELSE ShiftFilesUp(moved, i + 1, fault)

\* the rotation shifts from the lowest index up
rotate_files_ShiftsUpward(d, fault) ==
    LET closed == [d EXCEPT !.open = FALSE]
        oldest == d.max_files - 1
        hasOldest == oldest >= 1 /\ d.rot[oldest].exists
        removed == IF hasOldest THEN [closed EXCEPT !.rot[oldest] = NoFile] ELSE closed
        shifted == ShiftFilesUp(removed, 1, fault)
        reopened == [shifted EXCEPT !.base = EmptyFile, !.open = TRUE, !.size = 0,
                                    !.rotations = <<d.base.lines>> \o @]
    IN IF fault = "stop_close" THEN [closed EXCEPT !.thrown = "stopped"]
       ELSE IF hasOldest /\ fault = "remove" THEN [closed EXCEPT !.thrown = "remove"]
       ELSE IF hasOldest /\ fault = "stop_remove" THEN [removed EXCEPT !.thrown = "stopped"]
       ELSE IF shifted.thrown # "none" THEN shifted
       ELSE IF fault = "stop_reopen" THEN [reopened EXCEPT !.thrown = "stopped"]
       ELSE reopened

\* the rotation shifts one file more: the loop starts at max_files
rotate_files_ShiftsOneMore(d, fault) ==
    LET closed == [d EXCEPT !.open = FALSE]
        shifted == ShiftFiles(closed, d.max_files, fault)
    IN IF shifted.thrown # "none" THEN shifted
       ELSE [shifted EXCEPT !.base = EmptyFile, !.open = TRUE, !.size = 0,
                            !.rotations = <<d.base.lines>> \o @]

\* RotatingFileSink::rotate_files: close; remove <stem>_(max_files-1) if it
\* exists; shift; reopen the base with trunc; current_file_size_ = 0.
\* std::filesystem::remove and rename throw when they fail; the process may
\* stop after any of the steps
rotate_files(d, fault) ==
    LET closed == [d EXCEPT !.open = FALSE]
        oldest == d.max_files - 1
        hasOldest == oldest >= 1 /\ d.rot[oldest].exists
        removed == IF hasOldest THEN [closed EXCEPT !.rot[oldest] = NoFile] ELSE closed
        shifted == ShiftFiles(removed, d.max_files - 1, fault)
        reopened == [shifted EXCEPT !.base = EmptyFile, !.open = TRUE, !.size = 0,
                                    !.rotations = <<d.base.lines>> \o @]
    IN IF fault = "stop_close" THEN [closed EXCEPT !.thrown = "stopped"]
       ELSE IF hasOldest /\ fault = "remove" THEN [closed EXCEPT !.thrown = "remove"]
       ELSE IF hasOldest /\ fault = "stop_remove" THEN [removed EXCEPT !.thrown = "stopped"]
       ELSE IF shifted.thrown # "none" THEN shifted
       ELSE IF fault = "stop_reopen" THEN [reopened EXCEPT !.thrown = "stopped"]
       ELSE reopened

\* RotatingFileSink::check_rotation
RotatingCheckRotation(d, fault) ==
    IF d.size >= d.max_file_size THEN rotate_files(d, fault) ELSE d

\* the sink rolls the base over and keeps the date it had
DailyCheckRotation_KeepsDate(d, fault) ==
    IF d.today = d.date THEN d
    ELSE [d EXCEPT !.dated[d.date] = d.base, !.base = EmptyFile, !.open = TRUE]

\* the sink takes the new date and leaves the base file as it is
DailyCheckRotation_KeepsBase(d, fault) ==
    IF d.today = d.date THEN d ELSE [d EXCEPT !.date = d.today]

\* DailyFileSink::check_rotation: on a new day close, rename the base to the
\* dated name (on failure copy_file, which fails too when the target
\* exists, then remove), reopen the base with trunc -- whatever became of the
\* rename -- and throw if the reopen fails
DailyCheckRotation(d, fault) ==
    IF d.today = d.date THEN d
    ELSE LET renamed == [d EXCEPT !.dated[d.date] = d.base, !.base = NoFile]
             renameFails == fault \in {"rename", "rename_copy"}
             copyFails == fault = "rename_copy" \/ d.dated[d.date].exists
             moved == IF ~d.base.exists THEN d
                      ELSE IF ~renameFails THEN renamed
                      ELSE IF copyFails THEN d
                      ELSE renamed
         IN IF fault = "reopen"
            THEN [moved EXCEPT !.open = FALSE, !.thrown = "reopen"]
            ELSE [moved EXCEPT !.base = EmptyFile, !.open = TRUE, !.date = d.today]

\* FileSink::write: if (file_stream_) the line goes to the end of the base
FileWrite(d, len) ==
    LET line == Line(Len(d.written) + 1, len)
        put == IF d.open THEN [d EXCEPT !.base.lines = Append(@, line)] ELSE d
    IN [put EXCEPT !.written = Append(@, line), !.days = Append(@, d.today)]

Init ==
    /\ running_ = FALSE
    /\ queue_ = NullQueue
    /\ sinks_ = <<>>
    /\ read_index_ = 0
    /\ log_level_ = TRACE
    /\ writer = IdleWriter
    /\ pc = [t \in Threads |-> "idle"]
    /\ loc = [p \in Producers |-> NoLoc]
    /\ mop = "none"
    /\ sinkOut = [s \in Sinks |-> <<>>]
    /\ flushed = [s \in Sinks |-> 0]
    /\ min_level = [s \in Sinks |-> TRACE]
    /\ dedicated = [s \in Sinks |-> FALSE]
    /\ renders = [i \in Ids \cup {NoId} |-> 0]
    /\ recs = [p \in Producers |-> <<>>]
    /\ session = 0
    /\ sessSinks = <<>>
    /\ sessCap = 0
    /\ atStop = {}
    /\ stopRace = FALSE
    /\ uaf = FALSE
    /\ rejected = {}
    /\ life = NoLife
    /\ disk = NoDisk

(* ------------------------------------------------------------ Logger::log *)
InFlight == {"log_reserve", "log_level", "log_fmt", "log_publish"}

\* number of records accepted so far, over all threads
RECURSIVE SumLen(_, _)
SumLen(f, S) ==
    IF S = {} THEN 0
    ELSE LET x == CHOOSE y \in S : TRUE IN Len(f[x]) + SumLen(f, S \ {x})

Accepted == SumLen(recs, Producers)

\* the history entry of record id
Rec(id) == recs[id.t][id.n]
Logged == {id \in Ids : id.n <= Len(recs[id.t])}

\* the check rejects the records at the global level as well
LogRejects_AtLevelToo(level) == ~running_ \/ queue_.gen = 0 \/ level <= log_level_

\* the check does not look at running_
LogRejects_IgnoresRunning(level) == queue_.gen = 0 \/ level < log_level_

\* if (!running_ || !queue_ || level < log_level_) return;
LogRejects(level) == ~running_ \/ queue_.gen = 0 \/ level < log_level_

\* history entry of a call: its level, the global level and the running flag
\* it met, the sink it addressed (direct calls), whether the writer thread of
\* the session had started, the index it reserved, whether it was published
NewRec(lvl, kind) ==
    [level |-> lvl, kind |-> kind, session |-> session, glevel |-> log_level_,
     running |-> running_, sink |-> "none", attached |-> (writer.pc # "none"),
     index |-> NoIndex, published |-> FALSE]

\* what the logger was doing when a call returned at once
RejectReason(lvl) ==
    IF ~running_ \/ queue_.gen = 0 THEN "stopped"
    ELSE IF lvl < log_level_ THEN "level" ELSE "none"

\* a thread calls log(level, format, args...): the call returns at once when
\* the check rejects it, and goes on to the reservation otherwise.  kind is
\* "log" for a format string that fits its arguments and "malformed" for one
\* that std::vformat rejects
LogCall(p, lvl, kind) ==
    /\ pc[p] = "idle"
    /\ IF LogRejects(lvl)
       THEN /\ rejected' = rejected \cup {RejectReason(lvl)}
            /\ UNCHANGED <<pc, loc, recs>>
       ELSE /\ pc' = [pc EXCEPT ![p] = "log_reserve"]
            /\ loc' = [loc EXCEPT ![p] = [NoLoc EXCEPT !.level = lvl,
                                                       !.id = [t |-> p, n |-> Len(recs[p]) + 1]]]
            /\ recs' = [recs EXCEPT ![p] = Append(@, NewRec(lvl, kind))]
            /\ UNCHANGED rejected
    /\ UNCHANGED <<running_, queue_, sinks_, read_index_, log_level_, writer, mop,
                   sinkOut, flushed, min_level, dedicated, renders, session,
                   sessSinks, sessCap, atStop, stopRace, uaf,
                   life, disk>>

LogEnter(p, lvl) == LogCall(p, lvl, "log")
LogEnterMalformed(p, lvl) == LogCall(p, lvl, "malformed")

\* the queue a producer works on was deleted (or replaced) under it: the
\* access is undefined behaviour; the call is recorded and followed no further
QueueGone(p) == queue_.gen = 0 \/ (loc[p].gen # 0 /\ queue_.gen # loc[p].gen)

LogFault(p) ==
    /\ pc[p] \in InFlight
    /\ QueueGone(p)
    /\ uaf' = TRUE
    /\ pc' = [pc EXCEPT ![p] = "idle"]
    /\ loc' = [loc EXCEPT ![p] = NoLoc]
    /\ UNCHANGED <<running_, queue_, sinks_, read_index_, log_level_, writer, mop,
                   sinkOut, flushed, min_level, dedicated, renders, recs, session,
                   sessSinks, sessCap, rejected, atStop, stopRace,
                   life, disk>>

\* the reservation waits until the writer thread has made room in the queue
LogReserve_WaitsForRoom(p) ==
    /\ pc[p] = "log_reserve"
    /\ ~QueueGone(p)
    /\ queue_.reserved - read_index_ < queue_.cap
    /\ queue_' = reserve(queue_)
    /\ loc' = [loc EXCEPT ![p].index = queue_.reserved, ![p].gen = queue_.gen]
    /\ recs' = [recs EXCEPT ![p][loc[p].id.n].index = queue_.reserved]
    /\ pc' = [pc EXCEPT ![p] = "log_level"]
    /\ UNCHANGED <<running_, sinks_, read_index_, log_level_, writer, mop, sinkOut,
                   flushed, min_level, dedicated, renders, session, sessSinks, sessCap, rejected,
                   atStop, stopRace, uaf,
                   life, disk>>

\* uint64_t index = queue_->reserve(); auto &entry_ref = *(*queue_)[index];
LogReserve(p) ==
    /\ pc[p] = "log_reserve"
    /\ ~QueueGone(p)
    /\ queue_' = reserve(queue_)
    /\ loc' = [loc EXCEPT ![p].index = queue_.reserved, ![p].gen = queue_.gen]
    /\ recs' = [recs EXCEPT ![p][loc[p].id.n].index = queue_.reserved]
    /\ pc' = [pc EXCEPT ![p] = "log_level"]
    /\ UNCHANGED <<running_, sinks_, read_index_, log_level_, writer, mop, sinkOut,
                   flushed, min_level, dedicated, renders, session, sessSinks, sessCap, rejected,
                   atStop, stopRace, uaf,
                   life, disk>>

\* entry_ref.level = level;
LogStoreLevel(p) ==
    /\ pc[p] = "log_level"
    /\ ~QueueGone(p)
    /\ queue_' = [queue_ EXCEPT !.slots[SlotOf(queue_, loc[p].index)].level = loc[p].level]
    /\ pc' = [pc EXCEPT ![p] = "log_fmt"]
    /\ UNCHANGED <<running_, sinks_, read_index_, log_level_, writer, loc, mop,
                   sinkOut, flushed, min_level, dedicated, renders, recs, session,
                   sessSinks, sessCap, rejected, atStop, stopRace, uaf,
                   life, disk>>

\* entry_ref.formatter = std::move(formatter); entry_ref.timestamp = ns;
LogStoreFormatter(p) ==
    /\ pc[p] = "log_fmt"
    /\ ~QueueGone(p)
    /\ queue_' = [queue_ EXCEPT !.slots[SlotOf(queue_, loc[p].index)].fmt = loc[p].id,
                                !.slots[SlotOf(queue_, loc[p].index)].ts = loc[p].id]
    /\ pc' = [pc EXCEPT ![p] = "log_publish"]
    /\ UNCHANGED <<running_, sinks_, read_index_, log_level_, writer, loc, mop,
                   sinkOut, flushed, min_level, dedicated, renders, recs, session,
                   sessSinks, sessCap, rejected, atStop, stopRace, uaf,
                   life, disk>>

\* queue_->publish(index);
LogPublish(p) ==
    /\ pc[p] = "log_publish"
    /\ ~QueueGone(p)
    /\ queue_' = publish(queue_, loc[p].index)
    /\ recs' = [recs EXCEPT ![p][loc[p].id.n].published = TRUE]
    /\ pc' = [pc EXCEPT ![p] = "idle"]
    /\ loc' = [loc EXCEPT ![p] = NoLoc]
    /\ UNCHANGED <<running_, sinks_, read_index_, log_level_, writer, mop, sinkOut,
                   flushed, min_level, dedicated, renders, session, sessSinks, sessCap, rejected,
                   atStop, stopRace, uaf,
                   life, disk>>

(* ---------------------------------------------------------- writer thread *)
PublishedNow == {id \in Logged : Rec(id).published /\ Rec(id).session = session}

\* while (running_)
WriterLoop ==
    /\ writer.pc = "w_loop"
    /\ IF running_
       THEN /\ writer' = [writer EXCEPT !.pc = "w_read"]
            /\ atStop' = atStop
       ELSE /\ writer' = [writer EXCEPT !.pc = "d_read"]
            /\ atStop' = PublishedNow
    /\ UNCHANGED <<running_, queue_, sinks_, read_index_, log_level_, pc, loc, mop,
                   sinkOut, flushed, min_level, dedicated, renders, recs, session,
                   sessSinks, sessCap, rejected, stopRace, uaf,
                   life, disk>>

\* auto [entry_ptr, count] = queue_->read(read_index_); if (entry_ptr) ... else sleep
WriterRead ==
    /\ writer.pc = "w_read"
    /\ LET r == read(queue_, read_index_)
       IN /\ read_index_' = r.cursor
          /\ writer' = IF r.ptr # NoIndex
                       THEN [pc |-> "w_write", ptr |-> r.ptr, count |-> r.count, i |-> 0]
                       ELSE [writer EXCEPT !.pc = "w_loop"]
    /\ UNCHANGED <<running_, queue_, sinks_, log_level_, pc, loc, mop, sinkOut,
                   flushed, min_level, dedicated, renders, recs, session, sessSinks, sessCap, rejected,
                   atStop, stopRace, uaf,
                   life, disk>>

\* the writer thread leaves without the drain loop
WriterDrainRead_NoDrain ==
    /\ writer.pc = "d_read"
    /\ writer' = [IdleWriter EXCEPT !.pc = "w_done"]
    /\ UNCHANGED <<running_, queue_, sinks_, read_index_, log_level_, pc, loc, mop,
                   sinkOut, flushed, min_level, dedicated, renders, recs, session,
                   sessSinks, sessCap, rejected, atStop, stopRace, uaf,
                   life, disk>>

\* the drain loop goes on reading when it has read nothing
WriterDrainRead_NoBreak ==
    /\ writer.pc = "d_read"
    /\ LET r == read(queue_, read_index_)
       IN /\ r.ptr # NoIndex /\ r.count # 0
          /\ read_index_' = r.cursor
          /\ writer' = [pc |-> "d_write", ptr |-> r.ptr, count |-> r.count, i |-> 0]
    /\ UNCHANGED <<running_, queue_, sinks_, log_level_, pc, loc, mop, sinkOut,
                   flushed, min_level, dedicated, renders, recs, session, sessSinks, sessCap, rejected,
                   atStop, stopRace, uaf,
                   life, disk>>

\* drain loop: read; if (!entry_ptr || count == 0) break;
WriterDrainRead ==
    /\ writer.pc = "d_read"
    /\ LET r == read(queue_, read_index_)
       IN /\ read_index_' = r.cursor
          /\ writer' = IF r.ptr = NoIndex \/ r.count = 0
                       THEN [IdleWriter EXCEPT !.pc = "w_done"]
                       ELSE [pc |-> "d_write", ptr |-> r.ptr, count |-> r.count, i |-> 0]
    /\ UNCHANGED <<running_, queue_, sinks_, log_level_, pc, loc, mop, sinkOut,
                   flushed, min_level, dedicated, renders, recs, session, sessSinks, sessCap, rejected,
                   atStop, stopRace, uaf,
                   life, disk>>

\* the writer thread tests the entry against the global level as well
write_log_entry_AtCurrentLevel(entry) ==
    IF entry.level < log_level_
    THEN [out |-> sinkOut, rnd |-> renders]
    ELSE WriteToSinks(1, entry, [out |-> sinkOut, rnd |-> renders])

\* write_log_entry, one iteration of the outer loop: entry_ptr[i] goes to the sinks
write_log_entry(entry) == WriteToSinks(1, entry, [out |-> sinkOut, rnd |-> renders])

\* entry.formatter(): std::vformat throws std::format_error on a format string
\* that does not fit its arguments
FormatterThrows(entry) == entry.fmt \in Logged /\ Rec(entry.fmt).kind = "malformed"

\* some sink of the collection takes the entry, and so invokes its formatter
Rendered(entry) == \E k \in DOMAIN sinks_ : SinkAccepts(sinks_[k], entry.level)

\* an exception thrown by sink->write(entry) -- the entry's formatter is
\* invoked inside it -- is caught nowhere: it leaves write_log_entry and
\* writer_thread_func, and std::terminate is called
WriterWrite ==
    /\ writer.pc \in {"w_write", "d_write"}
    /\ LET entry == queue_.slots[writer.ptr + writer.i]
           st == write_log_entry(entry)
       IN IF FormatterThrows(entry) /\ Rendered(entry)
          THEN /\ renders' = [renders EXCEPT ![entry.fmt] = @ + 1]
               /\ life' = [life EXCEPT !.thrown = "format_error", !.aborted = TRUE]
               /\ writer' = writer
               /\ UNCHANGED sinkOut
          ELSE /\ sinkOut' = st.out
               /\ renders' = st.rnd
               /\ writer' = IF writer.i + 1 < writer.count
                            THEN [writer EXCEPT !.i = @ + 1]
                            ELSE [writer EXCEPT !.i = @ + 1,
                                                !.pc = IF writer.pc = "w_write"
                                                       THEN "w_flush" ELSE "d_flush"]
               /\ UNCHANGED life
    /\ UNCHANGED <<running_, queue_, sinks_, read_index_, log_level_, pc, loc, mop,
                   flushed, min_level, dedicated, recs, session, sessSinks, sessCap, rejected, atStop,
                   stopRace, uaf, disk>>

\* the batches of the drain loop are written and not flushed
WriterFlush_NotOnDrain ==
    /\ writer.pc \in {"w_flush", "d_flush"}
    /\ flushed' = IF writer.pc = "w_flush" THEN FlushSinks(sinkOut) ELSE flushed
    /\ writer' = [IdleWriter EXCEPT !.pc = IF writer.pc = "w_flush" THEN "w_loop" ELSE "d_read"]
    /\ UNCHANGED <<running_, queue_, sinks_, read_index_, log_level_, pc, loc, mop,
                   sinkOut, min_level, dedicated, renders, recs, session, sessSinks, sessCap, rejected,
                   atStop, stopRace, uaf,
                   life, disk>>

\* write_log_entry, second loop: flush every sink of the collection
WriterFlush ==
    /\ writer.pc \in {"w_flush", "d_flush"}
    /\ flushed' = FlushSinks(sinkOut)
    /\ writer' = [IdleWriter EXCEPT !.pc = IF writer.pc = "w_flush" THEN "w_loop" ELSE "d_read"]
    /\ UNCHANGED <<running_, queue_, sinks_, read_index_, log_level_, pc, loc, mop,
                   sinkOut, min_level, dedicated, renders, recs, session, sessSinks, sessCap, rejected,
                   atStop, stopRace, uaf,
                   life, disk>>

(* ------------------------------------------------ configuration mutators *)
\* add_sink: sinks_.push_back(sink)
AddSink(s) ==
    /\ pc[Main] = "idle"
    /\ sinks_' = Append(sinks_, s)
    /\ life' = Returned("add_sink", FALSE)
    /\ UNCHANGED <<running_, queue_, read_index_, log_level_, writer, pc, loc, mop,
                   sinkOut, flushed, min_level, dedicated, renders, recs, session,
                   sessSinks, sessCap, rejected, atStop, stopRace, uaf,
                   disk>>

\* clear_sinks: sinks_.clear()
ClearSinks ==
    /\ pc[Main] = "idle"
    /\ sinks_' = <<>>
    /\ life' = Returned("clear_sinks", FALSE)
    /\ UNCHANGED <<running_, queue_, read_index_, log_level_, writer, pc, loc, mop,
                   sinkOut, flushed, min_level, dedicated, renders, recs, session,
                   sessSinks, sessCap, rejected, atStop, stopRace, uaf,
                   disk>>

\* sink->set_min_level(level)
SetMinLevel(s, l) ==
    /\ pc[Main] = "idle"
    /\ min_level' = [min_level EXCEPT ![s] = l]
    /\ UNCHANGED <<running_, queue_, sinks_, read_index_, log_level_, writer, pc, loc,
                   mop, sinkOut, flushed, dedicated, renders, recs, session,
                   sessSinks, sessCap, rejected, atStop, stopRace, uaf,
                   life, disk>>

\* sink->set_dedicated(flag)
SetDedicated(s, flag) ==
    /\ pc[Main] = "idle"
    /\ dedicated' = [dedicated EXCEPT ![s] = flag]
    /\ UNCHANGED <<running_, queue_, sinks_, read_index_, log_level_, writer, pc, loc,
                   mop, sinkOut, flushed, min_level, renders, recs, session,
                   sessSinks, sessCap, rejected, atStop, stopRace, uaf,
                   life, disk>>

\* sink->log_info(...) and its siblings: a record logged directly to one sink
\* is written by that sink alone, when the sink's own level accepts it
DirectLog(p, s, lvl) ==
    /\ pc[p] = "idle"
    /\ LET id == [t |-> p, n |-> Len(recs[p]) + 1]
           entry == [EmptySlot EXCEPT !.level = lvl, !.fmt = id, !.ts = id]
           st0 == [out |-> sinkOut, rnd |-> renders]
           st == IF should_log(s, lvl) THEN SinkWrite(st0, s, entry) ELSE st0
       IN /\ recs' = [recs EXCEPT ![p] = Append(@, [NewRec(lvl, "direct") EXCEPT !.sink = s])]
          /\ sinkOut' = st.out
          /\ renders' = st.rnd
    /\ UNCHANGED <<running_, queue_, sinks_, read_index_, log_level_, writer, pc, loc,
                   mop, flushed, min_level, dedicated, session, sessSinks, sessCap,
                   rejected, atStop, stopRace, uaf,
                   life, disk>>

\* set_log_level: log_level_.store(level)
SetLogLevel(l) ==
    /\ pc[Main] = "idle"
    /\ log_level_' = l
    /\ life' = Returned("set_log_level", FALSE)
    /\ UNCHANGED <<running_, queue_, sinks_, read_index_, writer, pc, loc, mop,
                   sinkOut, flushed, min_level, dedicated, renders, recs, session,
                   sessSinks, sessCap, rejected, atStop, stopRace, uaf,
                   disk>>

(* ----------------------------------------------------------- Logger::init *)
\* first half of every init overload: the sinks and the level it installs,
\* queue_ = new SlickQueue(rounded size); running_ = true;
InitAlloc(newSinks, newLevel, queue_size) ==
    /\ pc[Main] = "idle"
    /\ sinks_' = newSinks
    /\ log_level_' = newLevel
    /\ queue_' = NewQueue(session + 1, QueueCapacity(queue_size))
    /\ running_' = TRUE
    /\ session' = session + 1
    /\ sessSinks' = newSinks
    /\ sessCap' = QueueCapacity(queue_size)
    /\ atStop' = {}
    /\ stopRace' = FALSE
    /\ pc' = [pc EXCEPT ![Main] = "init_spawn"]
    /\ life' = [life EXCEPT !.queues = @ + 1, !.queue_size = queue_size]
    /\ UNCHANGED <<read_index_, writer, loc, mop, sinkOut, flushed, min_level, dedicated,
                   renders, recs, uaf, rejected,
                   disk>>

\* init(log_file, queue_size): clear_sinks(); add_sink(FileSink(log_file)); ...
InitFile(s, queue_size) == InitAlloc(<<s>>, log_level_, queue_size)

\* the file sink is constructed after the queue was allocated and running_ set
InitFileThrows_AfterAlloc(s, queue_size) ==
    /\ pc[Main] = "idle"
    /\ sinks_' = <<>>
    /\ queue_' = NewQueue(session + 1, RoundQueueSize(queue_size))
    /\ running_' = TRUE
    /\ life' = [life EXCEPT !.queues = @ + 1,
                            !.done = [op |-> "init_throws", early |-> FALSE]]
    /\ UNCHANGED <<read_index_, log_level_, writer, pc, loc, mop, sinkOut, flushed,
                   min_level, dedicated, renders, recs, session, sessSinks, sessCap,
                   rejected, atStop, stopRace, uaf, disk>>

\* init(log_file, queue_size) with a path that cannot be opened for append:
\* clear_sinks(); then the constructor of FileSink throws std::runtime_error
\* and init is left before the queue is allocated
InitFileThrows(s, queue_size) ==
    /\ pc[Main] = "idle"
    /\ sinks_' = <<>>
    /\ life' = Returned("init_throws", FALSE)
    /\ UNCHANGED <<running_, queue_, read_index_, log_level_, writer, pc, loc, mop,
                   sinkOut, flushed, min_level, dedicated, renders, recs, session,
                   sessSinks, sessCap, rejected, atStop, stopRace, uaf, disk>>

\* init(config): clear_sinks(); add_sink each; set_log_level(config.min_level); ...
InitConfig(cfgSinks, cfgLevel, queue_size) == InitAlloc(cfgSinks, cfgLevel, queue_size)

\* init(queue_size): the sinks added before the call are kept
InitSize(queue_size) == InitAlloc(sinks_, log_level_, queue_size)

\* init() leaves read_index_ where the last session left it
InitSpawn_KeepsReadIndex ==
    /\ pc[Main] = "init_spawn"
    /\ writer' = [IdleWriter EXCEPT !.pc = "w_loop"]
    /\ pc' = [pc EXCEPT ![Main] = "idle"]
    /\ life' = [life EXCEPT !.threads = @ + 1,
                            !.aborted = @ \/ writer.pc # "none",
                            !.done = [op |-> "init", early |-> FALSE]]
    /\ UNCHANGED <<running_, queue_, sinks_, read_index_, log_level_, loc, mop, sinkOut,
                   flushed, min_level, dedicated, renders, recs, session, sessSinks,
                   sessCap, rejected, atStop, stopRace, uaf, disk>>

\* second half: read_index_ = queue_->initial_reading_index(); writer_thread_ = std::thread(...)
InitSpawn ==
    /\ pc[Main] = "init_spawn"
    /\ read_index_' = initial_reading_index(queue_)
    /\ writer' = [IdleWriter EXCEPT !.pc = "w_loop"]
    /\ pc' = [pc EXCEPT ![Main] = "idle"]
    /\ life' = [life EXCEPT !.threads = @ + 1,
                            !.aborted = @ \/ writer.pc # "none",
                            !.done = [op |-> "init", early |-> FALSE]]
    /\ UNCHANGED <<running_, queue_, sinks_, log_level_, loc, mop, sinkOut, flushed,
                   min_level, dedicated, renders, recs, session, sessSinks, sessCap, rejected, atStop,
                   stopRace, uaf,
                   disk>>

(* ------------------------------------------------- Logger::shutdown, reset *)
\* shutdown() without its first test: the body runs on a stopped logger too
ShutdownEnter_NoTest(op) ==
    /\ pc[Main] = "idle"
    /\ pc' = [pc EXCEPT ![Main] = "sd_store"]
    /\ mop' = op
    /\ UNCHANGED <<running_, queue_, sinks_, read_index_, log_level_, writer, loc,
                   sinkOut, flushed, min_level, dedicated, renders, recs, session,
                   sessSinks, sessCap, rejected, atStop, stopRace, uaf, life, disk>>

\* shutdown(): if (!running_) return;  -- reset() = shutdown(), then
\* log_file_.clear(); read_index_ = 0; log_level_.store(TRACE)
ShutdownEnter(op) ==
    /\ pc[Main] = "idle"
    /\ IF running_
       THEN /\ pc' = [pc EXCEPT ![Main] = "sd_store"]
            /\ mop' = op
            /\ UNCHANGED <<read_index_, log_level_, life>>
       ELSE /\ read_index_' = IF op = "reset" THEN 0 ELSE read_index_
            /\ log_level_' = IF op = "reset" THEN TRACE ELSE log_level_
            /\ life' = Returned(op, TRUE)
            /\ UNCHANGED <<pc, mop>>
    /\ UNCHANGED <<running_, queue_, sinks_, writer, loc, sinkOut, flushed, min_level,
                   dedicated, renders, recs, session, sessSinks, sessCap, rejected, atStop, stopRace, uaf,
                   disk>>

\* running_ = false;
ShutdownStore ==
    /\ pc[Main] = "sd_store"
    /\ running_' = FALSE
    /\ stopRace' = (\E p \in Producers : pc[p] \in InFlight)
    /\ pc' = [pc EXCEPT ![Main] = "sd_join"]
    /\ UNCHANGED <<queue_, sinks_, read_index_, log_level_, writer, loc, mop, sinkOut,
                   flushed, min_level, dedicated, renders, recs, session, sessSinks, sessCap, rejected,
                   atStop, uaf,
                   life, disk>>

\* the sinks are released without waiting for the writer thread
ShutdownJoin_NoJoin ==
    /\ pc[Main] = "sd_join"
    /\ writer' = IdleWriter
    /\ sinks_' = <<>>
    /\ queue_' = NullQueue
    /\ read_index_' = IF mop = "reset" THEN 0 ELSE read_index_
    /\ log_level_' = IF mop = "reset" THEN TRACE ELSE log_level_
    /\ pc' = [pc EXCEPT ![Main] = "idle"]
    /\ mop' = "none"
    /\ life' = [life EXCEPT !.threads = IF writer.pc = "none" THEN @ ELSE @ - 1,
                            !.queues = IF queue_.gen = 0 THEN @ ELSE @ - 1,
                            !.done = [op |-> mop, early |-> FALSE]]
    /\ UNCHANGED <<running_, loc, sinkOut, flushed, min_level, dedicated, renders,
                   recs, session, sessSinks, sessCap, rejected, atStop, stopRace, uaf,
                   disk>>

\* shutdown() without sinks_.clear()
ShutdownJoin_KeepsSinks ==
    /\ pc[Main] = "sd_join"
    /\ writer.pc \in {"none", "w_done"}
    /\ writer' = IdleWriter
    /\ queue_' = NullQueue
    /\ read_index_' = IF mop = "reset" THEN 0 ELSE read_index_
    /\ log_level_' = IF mop = "reset" THEN TRACE ELSE log_level_
    /\ pc' = [pc EXCEPT ![Main] = "idle"]
    /\ mop' = "none"
    /\ life' = [life EXCEPT !.threads = IF writer.pc = "none" THEN @ ELSE @ - 1,
                            !.queues = IF queue_.gen = 0 THEN @ ELSE @ - 1,
                            !.done = [op |-> mop, early |-> FALSE]]
    /\ UNCHANGED <<running_, sinks_, loc, sinkOut, flushed, min_level, dedicated, renders,
                   recs, session, sessSinks, sessCap, rejected, atStop, stopRace, uaf,
                   disk>>

\* if (writer_thread_.joinable()) writer_thread_.join();
\* sinks_.clear(); delete queue_; queue_ = nullptr;  -- and the tail of reset()
ShutdownJoin ==
    /\ pc[Main] = "sd_join"
    /\ writer.pc \in {"none", "w_done"}
    /\ writer' = IdleWriter
    /\ sinks_' = <<>>
    /\ queue_' = NullQueue
    /\ read_index_' = IF mop = "reset" THEN 0 ELSE read_index_
    /\ log_level_' = IF mop = "reset" THEN TRACE ELSE log_level_
    /\ pc' = [pc EXCEPT ![Main] = "idle"]
    /\ mop' = "none"
    /\ life' = [life EXCEPT !.threads = IF writer.pc = "none" THEN @ ELSE @ - 1,
                            !.queues = IF queue_.gen = 0 THEN @ ELSE @ - 1,
                            !.done = [op |-> mop, early |-> FALSE]]
    /\ UNCHANGED <<running_, loc, sinkOut, flushed, min_level, dedicated, renders,
                   recs, session, sessSinks, sessCap, rejected, atStop, stopRace, uaf,
                   disk>>

(* ------------------------------------- shutdown() called by two threads *)
\* shutdown() statement by statement, executed by thread t: the main thread
\* (shutdown or reset, mop) or a second application thread (shutdown)
OpOf(t) == IF t = Main THEN mop ELSE "shutdown"

\* if (!running_) return;
ShutdownTest(t, op) ==
    /\ pc[t] = "idle"
    /\ IF running_
       THEN /\ pc' = [pc EXCEPT ![t] = "sd_store"]
            /\ mop' = IF t = Main THEN op ELSE mop
            /\ UNCHANGED <<read_index_, log_level_, life>>
       ELSE /\ read_index_' = IF op = "reset" THEN 0 ELSE read_index_
            /\ log_level_' = IF op = "reset" THEN TRACE ELSE log_level_
            /\ life' = Returned(op, TRUE)
            /\ UNCHANGED <<pc, mop>>
    /\ UNCHANGED <<running_, queue_, sinks_, writer, loc, sinkOut, flushed, min_level,
                   dedicated, renders, recs, session, sessSinks, sessCap, rejected,
                   atStop, stopRace, uaf, disk>>

\* running_ = false;
ShutdownClearRunning(t) ==
    /\ pc[t] = "sd_store"
    /\ running_' = FALSE
    /\ pc' = [pc EXCEPT ![t] = "sd_joinable"]
    /\ UNCHANGED <<queue_, sinks_, read_index_, log_level_, writer, loc, mop, sinkOut,
                   flushed, min_level, dedicated, renders, recs, session, sessSinks,
                   sessCap, rejected, atStop, stopRace, uaf, life, disk>>

\* if (writer_thread_.joinable())
ShutdownJoinable(t) ==
    /\ pc[t] = "sd_joinable"
    /\ pc' = [pc EXCEPT ![t] = IF writer.pc # "none" THEN "sd_dojoin" ELSE "sd_clear"]
    /\ UNCHANGED <<running_, queue_, sinks_, read_index_, log_level_, writer, loc, mop,
                   sinkOut, flushed, min_level, dedicated, renders, recs, session,
                   sessSinks, sessCap, rejected, atStop, stopRace, uaf, life, disk>>

\* writer_thread_.join(): returns when the writer thread has ended.  Called
\* on a thread the other caller has joined in the meantime it joins a second
\* time: undefined, the call returns or throws std::system_error
ShutdownDoJoin(t, throws) ==
    /\ pc[t] = "sd_dojoin"
    /\ writer.pc \in {"none", "w_done"}
    /\ writer' = IdleWriter
    /\ IF writer.pc = "none" /\ throws
       THEN /\ life' = [life EXCEPT !.threads = @ - 1, !.thrown = "system_error"]
            /\ pc' = [pc EXCEPT ![t] = "idle"]
       ELSE /\ life' = [life EXCEPT !.threads = @ - 1]
            /\ pc' = [pc EXCEPT ![t] = "sd_clear"]
    /\ UNCHANGED <<running_, queue_, sinks_, read_index_, log_level_, loc, mop,
                   sinkOut, flushed, min_level, dedicated, renders, recs, session,
                   sessSinks, sessCap, rejected, atStop, stopRace, uaf, disk>>

\* sinks_.clear();
ShutdownClearSinks(t) ==
    /\ pc[t] = "sd_clear"
    /\ sinks_' = <<>>
    /\ pc' = [pc EXCEPT ![t] = "sd_delete"]
    /\ UNCHANGED <<running_, queue_, read_index_, log_level_, writer, loc, mop,
                   sinkOut, flushed, min_level, dedicated, renders, recs, session,
                   sessSinks, sessCap, rejected, atStop, stopRace, uaf, life, disk>>

\* delete queue_;  -- of a null pointer it does nothing; queue_ keeps the
\* address until the next statement
ShutdownDelete(t) ==
    /\ pc[t] = "sd_delete"
    /\ life' = [life EXCEPT !.queues = IF queue_.gen = 0 THEN @ ELSE @ - 1]
    /\ pc' = [pc EXCEPT ![t] = "sd_null"]
    /\ UNCHANGED <<running_, queue_, sinks_, read_index_, log_level_, writer, loc, mop,
                   sinkOut, flushed, min_level, dedicated, renders, recs, session,
                   sessSinks, sessCap, rejected, atStop, stopRace, uaf, disk>>

\* queue_ = nullptr; and the rest of reset()
ShutdownNull(t) ==
    /\ pc[t] = "sd_null"
    /\ queue_' = NullQueue
    /\ read_index_' = IF OpOf(t) = "reset" THEN 0 ELSE read_index_
    /\ log_level_' = IF OpOf(t) = "reset" THEN TRACE ELSE log_level_
    /\ pc' = [pc EXCEPT ![t] = "idle"]
    /\ mop' = IF t = Main THEN "none" ELSE mop
    /\ life' = [life EXCEPT !.done = [op |-> OpOf(t), early |-> FALSE]]
    /\ UNCHANGED <<running_, sinks_, writer, loc, sinkOut, flushed, min_level,
                   dedicated, renders, recs, session, sessSinks, sessCap, rejected,
                   atStop, stopRace, uaf, disk>>

(* ------------------------------------------------ file sinks: operations *)
\* the constructor leaves current_file_size_ at 0 whatever the base holds
MakeRotating_FromZero(L, N) ==
    /\ disk.kind = "none"
    /\ disk' = [disk EXCEPT !.kind = "rotating", !.max_file_size = L, !.max_files = N,
                            !.base = [exists |-> TRUE, lines |-> disk.base.lines],
                            !.open = TRUE, !.size = 0]
    /\ UNCHANGED loggerVars

\* RotatingFileSink(base_path, config): FileSink opens the base for append
\* (and creates it); current_file_size_ = file_size(base_path_).  The same
\* for a sink constructed again on the files an earlier one left
MakeRotating(L, N) ==
    /\ disk.kind = "none"
    /\ disk' = [disk EXCEPT !.kind = "rotating", !.max_file_size = L, !.max_files = N,
                            !.base = [exists |-> TRUE, lines |-> disk.base.lines],
                            !.open = TRUE, !.size = FileSize(disk.base.lines)]
    /\ UNCHANGED loggerVars

\* the sink is destroyed (its stream closed), its files stay
CloseSink ==
    /\ disk.kind # "none"
    /\ disk.thrown = "none"
    /\ disk' = [disk EXCEPT !.kind = "none", !.open = FALSE]
    /\ UNCHANGED loggerVars

\* the sink does not count what it writes
RotatingWrite_NoCount(len, fault) ==
    /\ disk.kind = "rotating"
    /\ disk.thrown = "none"
    /\ LET d == RotatingCheckRotation(disk, fault)
       IN disk' = IF d.thrown # "none" THEN d ELSE FileWrite(d, len)
    /\ UNCHANGED loggerVars

\* RotatingFileSink::write: check_rotation(); format; if (file_stream_)
\* { write the line; current_file_size_ += formatted.length() + 1; }
RotatingWrite(len, fault) ==
    /\ disk.kind = "rotating"
    /\ disk.thrown = "none"
    /\ LET d == RotatingCheckRotation(disk, fault)
           w == FileWrite(d, len)
       IN disk' = IF d.thrown # "none" THEN d
                  ELSE IF d.open THEN [w EXCEPT !.size = @ + len] ELSE w
    /\ UNCHANGED loggerVars

\* DailyFileSink(base_path, config): FileSink opens the base for append;
\* current_date_ = get_date_string()
MakeDaily ==
    /\ disk.kind = "none"
    /\ disk' = [disk EXCEPT !.kind = "daily",
                            !.base = [exists |-> TRUE, lines |-> disk.base.lines],
                            !.open = TRUE, !.date = disk.today]
    /\ UNCHANGED loggerVars

\* DailyFileSink(base_path, config) with the rotation config given: config_
\* is stored, the base opened for append, current_date_ = get_date_string()
MakeDailyConfig(L, N) ==
    /\ disk.kind = "none"
    /\ disk' = [disk EXCEPT !.kind = "daily", !.max_file_size = L, !.max_files = N,
                            !.base = [exists |-> TRUE, lines |-> disk.base.lines],
                            !.open = TRUE, !.date = disk.today]
    /\ UNCHANGED loggerVars

\* DailyFileSink::write: check_rotation(); FileSink::write(entry)
DailyWrite(len, fault) ==
    /\ disk.kind = "daily"
    /\ disk.thrown = "none"
    /\ LET d == DailyCheckRotation(disk, fault)
       IN disk' = IF d.thrown # "none" THEN d ELSE FileWrite(d, len)
    /\ UNCHANGED loggerVars

\* midnight passes
NewDay ==
    /\ disk.today < MaxDays
    /\ disk' = [disk EXCEPT !.today = @ + 1]
    /\ UNCHANGED loggerVars

\* the process that stopped inside a rotation is gone: its files stay, the
\* stream is closed with it
ProcessGone ==
    /\ disk.thrown = "stopped"
    /\ disk' = [disk EXCEPT !.kind = "none", !.open = FALSE, !.thrown = "none"]
    /\ UNCHANGED loggerVars

\* check_rotation() called by itself, as the tests' subclass of the sink does
\* after it changed the date
DailyCheck ==
    /\ disk.kind = "daily"
    /\ disk.thrown = "none"
    /\ disk' = DailyCheckRotation(disk, "none")
    /\ UNCHANGED loggerVars

\* the directory holds a file <stem>_<date> with one line of an earlier run
\* when the sink is constructed
StageDated(d) ==
    /\ disk.kind = "none"
    /\ ~disk.dated[d].exists
    /\ disk' = [disk EXCEPT !.dated[d] = [exists |-> TRUE, lines |-> <<Line(0, 1)>>]]
    /\ UNCHANGED loggerVars

(* ---------------------------------------------------------- specification *)
\* the logger is configured and initialised while it is stopped
Stopped == ~running_ /\ writer.pc = "none"

\* Spec: one session in which two producers race with the writer thread and
\* with the main thread's init / shutdown / reset; every record passes the
\* level filters
Next ==
    \/ \E p \in Producers : Accepted < MaxLogs /\ LogEnter(p, WARN)
    \/ \E p \in Producers : LogFault(p)
    \/ \E p \in Producers : LogReserve(p)
    \/ \E p \in Producers : LogStoreLevel(p)
    \/ \E p \in Producers : LogStoreFormatter(p)
    \/ \E p \in Producers : LogPublish(p)
    \/ WriterLoop
    \/ WriterRead
    \/ WriterDrainRead
    \/ WriterWrite
    \/ WriterFlush
    \/ Stopped /\ session = 0 /\ Len(sinks_) = 0 /\ AddSink("s1")
    \/ Stopped /\ session = 0 /\ Len(sinks_) = 1 /\ AddSink("s2")
    \/ \E q \in QueueSizes : Stopped /\ session = 0 /\ InitSize(q)
    \/ InitSpawn
    \/ \E op \in {"shutdown", "reset"} : ShutdownEnter(op)
    \/ ShutdownStore
    \/ ShutdownJoin

Spec == Init /\ [][Next]_vars

\* SpecFanout: one session; the application configures the sinks, their
\* levels and dedicated flags and the global level in every way, initialises
\* the logger and shuts it down between the log calls of a thread that logs
\* records at two levels, by broadcast (at any time, also while init() or
\* shutdown() is under way) and directly to a sink, while the writer thread
\* runs; the queue holds all the records
FanoutQueueSizes == {MaxFanoutLogs}
AppIdle == pc[Main] = "idle" /\ pc["p1"] = "idle"
Configuring == AppIdle /\ Stopped /\ session = 0 /\ Logged = {}

NextFanout ==
    \/ \E l \in LogLevels : Accepted < MaxFanoutLogs /\ LogEnter("p1", l)
    \/ \E s \in Sinks, l \in LogLevels :
          AppIdle /\ Accepted < MaxFanoutLogs /\ session > 0 /\ DirectLog("p1", s, l)
    \/ LogFault("p1")
    \/ LogReserve("p1")
    \/ LogStoreLevel("p1")
    \/ LogStoreFormatter("p1")
    \/ LogPublish("p1")
    \/ WriterLoop
    \/ WriterRead
    \/ WriterDrainRead
    \/ WriterWrite
    \/ WriterFlush
    \/ Configuring /\ Len(sinks_) = 0 /\ AddSink("s1")
    \/ Configuring /\ Len(sinks_) = 1 /\ AddSink("s2")
    \/ Configuring /\ Len(sinks_) = 2 /\ ClearSinks
    \/ \E s \in Sinks : Configuring /\ min_level[s] = TRACE /\ SetMinLevel(s, WARN)
    \/ \E s \in Sinks : Configuring /\ ~dedicated[s] /\ SetDedicated(s, TRUE)
    \/ \E l \in GlobalLevels : AppIdle /\ l > log_level_ /\ SetLogLevel(l)
    \/ \E q \in FanoutQueueSizes : AppIdle /\ Stopped /\ session = 0 /\ InitSize(q)
    \/ \E q \in FanoutQueueSizes :
          AppIdle /\ Stopped /\ session = 0 /\ sinks_ = <<>> /\ InitFile("s1", q)
    \/ \E l \in GlobalLevels, q \in FanoutQueueSizes :
          AppIdle /\ Stopped /\ session = 0 /\ sinks_ = <<>>
                  /\ InitConfig(<<"s2", "s1">>, l, q)
    \/ InitSpawn
    \/ \E op \in {"shutdown", "reset"} : AppIdle /\ ShutdownEnter(op)
    \/ ShutdownStore
    \/ ShutdownJoin

SpecFanout == Init /\ [][NextFanout]_vars

\* SpecLifecycle: the application calls init (every overload), shutdown and
\* reset in any order and any state of the logger -- never initialised,
\* running, shut down, reset -- over several sessions, adding sinks and
\* changing the level in between; one thread logs between the calls, the
\* writer thread runs.  Nothing happens after std::terminate.
Alive == ~life.aborted

\* init() is called on a stopped logger, or (against the lifecycle) on a
\* running one whose writer thread holds no batch of the queue in its hands
CanInit ==
    /\ Alive /\ AppIdle /\ session < MaxSessions
    /\ Stopped \/ writer.pc \in {"w_loop", "w_read"}

NextLifecycle ==
    \/ Alive /\ AppIdle /\ Accepted < MaxLifeLogs /\ LogEnter("p1", WARN)
    \/ Alive /\ LogReserve("p1")
    \/ Alive /\ LogStoreLevel("p1")
    \/ Alive /\ LogStoreFormatter("p1")
    \/ Alive /\ LogPublish("p1")
    \/ Alive /\ WriterLoop
    \/ Alive /\ WriterRead
    \/ Alive /\ WriterDrainRead
    \/ Alive /\ WriterWrite
    \/ Alive /\ WriterFlush
    \/ \E s \in Sinks : Alive /\ AppIdle /\ s \notin Range(sinks_) /\ AddSink(s)
    \/ Alive /\ AppIdle /\ log_level_ # WARN /\ SetLogLevel(WARN)
    \/ \E q \in QueueSizes : CanInit /\ InitSize(q)
    \/ \E q \in QueueSizes : CanInit /\ InitFile("s1", q)
    \/ \E q \in QueueSizes : Alive /\ AppIdle /\ Stopped /\ InitFileThrows("s1", q)
    \/ \E q \in QueueSizes :
          CanInit /\ InitConfig(<<"s2", "s1">>, TRACE, q)
    \/ Alive /\ InitSpawn
    \/ \E op \in {"shutdown", "reset"} : Alive /\ AppIdle /\ ShutdownEnter(op)
    \/ Alive /\ ShutdownStore
    \/ Alive /\ ShutdownJoin

SpecLifecycle == Init /\ [][NextLifecycle]_vars

\* SpecErrors: one session with two sinks in which a thread logs records
\* whose format string fits its arguments and records whose format string
\* does not, while the writer thread runs; then shutdown
NextErrors ==
    \/ Alive /\ AppIdle /\ Accepted < MaxErrorLogs /\ LogEnter("p1", WARN)
    \/ Alive /\ AppIdle /\ Accepted < MaxErrorLogs /\ LogEnterMalformed("p1", WARN)
    \/ Alive /\ LogReserve("p1")
    \/ Alive /\ LogStoreLevel("p1")
    \/ Alive /\ LogStoreFormatter("p1")
    \/ Alive /\ LogPublish("p1")
    \/ Alive /\ WriterLoop
    \/ Alive /\ WriterRead
    \/ Alive /\ WriterDrainRead
    \/ Alive /\ WriterWrite
    \/ Alive /\ WriterFlush
    \/ \E q \in {MaxErrorLogs} :
          Alive /\ AppIdle /\ Stopped /\ session = 0 /\ InitConfig(<<"s1", "s2">>, TRACE, q)
    \/ \E q \in {MaxErrorLogs} : Alive /\ AppIdle /\ Stopped /\ session = 0 /\ InitFile("s1", q)
    \/ Alive /\ InitSpawn
    \/ Alive /\ AppIdle /\ ShutdownEnter("shutdown")
    \/ Alive /\ ShutdownStore
    \/ Alive /\ ShutdownJoin

SpecErrors == Init /\ [][NextErrors]_vars

\* SpecRotate: a RotatingFileSink with any limit and any number of files is
\* constructed in an empty directory, written to with lines of any size,
\* destroyed and constructed again with the same configuration on the files
\* it left; no operation of the file system fails
Due == disk.size >= disk.max_file_size
CanWrite == Len(disk.written) < MaxWrites

NextRotate ==
    \/ \E L \in 1..MaxFileSize, N \in 1..MaxFiles :
          disk.written = <<>> /\ MakeRotating(L, N)
    \/ disk.written # <<>> /\ MakeRotating(disk.max_file_size, disk.max_files)
    \/ disk.written # <<>> /\ CloseSink
    \/ \E len \in LineSizes : CanWrite /\ RotatingWrite(len, "none")

SpecRotate == Init /\ [][NextRotate]_vars

\* SpecSinkFaults: a RotatingFileSink or a DailyFileSink is written to over
\* several days while the renames, the copy, the remove and the reopen of a
\* rotation may fail
NextSinkFaults ==
    \/ \E L \in 1..MaxFileSize, N \in 1..MaxFiles : MakeRotating(L, N)
    \/ \E len \in LineSizes : CanWrite /\ RotatingWrite(len, "none")
    \/ \E len \in LineSizes, fault \in {"remove", "rename"} :
          CanWrite /\ Due /\ RotatingWrite(len, fault)
    \/ MakeDaily
    \/ disk.kind = "daily" /\ NewDay
    \/ \E len \in LineSizes : CanWrite /\ DailyWrite(len, "none")
    \/ \E len \in LineSizes, fault \in {"rename", "rename_copy", "reopen"} :
          CanWrite /\ disk.today # disk.date /\ DailyWrite(len, fault)

SpecSinkFaults == Init /\ [][NextSinkFaults]_vars

\* SpecDaily: a DailyFileSink is constructed in a directory that may hold
\* dated files of earlier runs, written to over several days, its rotation
\* check called by itself, destroyed and constructed again on the files it
\* left; no operation of the file system fails
NextDaily ==
    \/ \E d \in Days : disk.written = <<>> /\ StageDated(d)
    \/ MakeDaily
    \/ disk.written # <<>> /\ CloseSink
    \/ NewDay
    \/ \E len \in LineSizes : CanWrite /\ DailyWrite(len, "none")
    \/ disk.today # disk.date /\ DailyCheck

SpecDaily == Init /\ [][NextDaily]_vars

\* SpecDailySize: a DailyFileSink with a size limit (or with none:
\* max_file_size = 0) is written to with lines of any size over several days
NextDailySize ==
    \/ \E L \in 0..MaxFileSize, N \in 1..MaxFiles :
          disk.written = <<>> /\ MakeDailyConfig(L, N)
    \/ disk.kind = "daily" /\ NewDay
    \/ \E len \in LineSizes : CanWrite /\ DailyWrite(len, "none")

SpecDailySize == Init /\ [][NextDailySize]_vars

\* SpecRotateAny: a RotatingFileSink with any max_file_size, 0 (rotation
\* disabled) included, and any number of files is written to with lines of
\* any size; no operation of the file system fails
NextRotateAny ==
    \/ \E L \in 0..MaxFileSize, N \in 1..MaxFiles :
          disk.written = <<>> /\ MakeRotating(L, N)
    \/ \E len \in LineSizes : CanWrite /\ RotatingWrite(len, "none")

SpecRotateAny == Init /\ [][NextRotateAny]_vars

\* SpecRotateCrash: a RotatingFileSink is written to; the process may stop
\* after any step of a rotation, and a new process constructs the sink again,
\* with the same configuration, on the files the stopped one left
NextRotateCrash ==
    \/ \E L \in 1..MaxFileSize, N \in 1..MaxFiles :
          disk.written = <<>> /\ MakeRotating(L, N)
    \/ disk.written # <<>> /\ MakeRotating(disk.max_file_size, disk.max_files)
    \/ \E len \in LineSizes : CanWrite /\ RotatingWrite(len, "none")
    \/ \E len \in LineSizes, fault \in StopFaults :
          CanWrite /\ Due /\ RotatingWrite(len, fault)
    \/ ProcessGone

SpecRotateCrash == Init /\ [][NextRotateCrash]_vars

\* SpecCapacity: init, in each of its three overloads, is called on a fresh
\* logger with every queue size a size_t can hold
NextCapacity ==
    \/ \E q \in 0..(SizeT - 1) : Stopped /\ session = 0 /\ InitSize(q)
    \/ \E q \in 0..(SizeT - 1) : Stopped /\ session = 0 /\ InitFile("s1", q)
    \/ \E q \in 0..(SizeT - 1) :
          Stopped /\ session = 0 /\ InitConfig(<<"s2", "s1">>, WARN, q)
    \/ InitSpawn

SpecCapacity == Init /\ [][NextCapacity]_vars

\* SpecShutdownRace: one session; a thread logs, then the main thread calls
\* shutdown() or reset() while a second thread calls shutdown(), statement
\* by statement in any interleaving, the writer thread running
Stoppers == {Main, "p2"}
NoStopper == \A t \in Stoppers : pc[t] = "idle"
\* init() has returned and no shutdown() or reset() has
FirstStop == life.done.op = "init"

NextShutdownRace ==
    \/ NoStopper /\ Accepted < MaxLifeLogs /\ LogEnter("p1", WARN)
    \/ LogReserve("p1")
    \/ LogStoreLevel("p1")
    \/ LogStoreFormatter("p1")
    \/ LogPublish("p1")
    \/ WriterLoop
    \/ WriterRead
    \/ WriterDrainRead
    \/ WriterWrite
    \/ WriterFlush
    \/ \E q \in QueueSizes : Stopped /\ session = 0 /\ InitFile("s1", q)
    \/ InitSpawn
    \/ \E op \in {"shutdown", "reset"} :
          FirstStop /\ pc["p1"] = "idle" /\ pc["p2"] # "idle" /\ ShutdownTest(Main, op)
    \/ FirstStop /\ pc["p1"] = "idle" /\ ShutdownTest("p2", "shutdown")
    \/ \E t \in Stoppers : ShutdownClearRunning(t)
    \/ \E t \in Stoppers : ShutdownJoinable(t)
    \/ \E t \in Stoppers, throws \in BOOLEAN : ShutdownDoJoin(t, throws)
    \/ \E t \in Stoppers : ShutdownClearSinks(t)
    \/ \E t \in Stoppers : ShutdownDelete(t)
    \/ \E t \in Stoppers : ShutdownNull(t)

SpecShutdownRace == Init /\ [][NextShutdownRace]_vars

\* SpecLevel: one session with one file sink; a producer logs at two levels
\* while the main thread raises and lowers the global level at any moment,
\* also between the call of log() and the writer thread's write
NextLevel ==
    \/ \E l \in LogLevels : Accepted < MaxFanoutLogs /\ LogEnter("p1", l)
    \/ LogFault("p1")
    \/ LogReserve("p1")
    \/ LogStoreLevel("p1")
    \/ LogStoreFormatter("p1")
    \/ LogPublish("p1")
    \/ WriterLoop
    \/ WriterRead
    \/ WriterDrainRead
    \/ WriterWrite
    \/ WriterFlush
    \/ \E l \in GlobalLevels : l # log_level_ /\ SetLogLevel(l)
    \/ \E q \in FanoutQueueSizes :
          Stopped /\ session = 0 /\ sinks_ = <<>> /\ InitFile("s1", q)
    \/ InitSpawn
    \/ \E op \in {"shutdown", "reset"} : ShutdownEnter(op)
    \/ ShutdownStore
    \/ ShutdownJoin

SpecLevel == Init /\ [][NextLevel]_vars

\* SpecStop: one session with one file sink; two producers log while the
\* main thread calls shutdown() or reset().  The scheduler lets the writer
\* thread and the thread inside shutdown() run again and again; nothing is
\* assumed about the producers
NextStop ==
    \/ \E p \in Producers : Accepted < MaxLifeLogs /\ LogEnter(p, WARN)
    \/ \E p \in Producers : LogFault(p)
    \/ \E p \in Producers : LogReserve(p)
    \/ \E p \in Producers : LogStoreLevel(p)
    \/ \E p \in Producers : LogStoreFormatter(p)
    \/ \E p \in Producers : LogPublish(p)
    \/ WriterLoop
    \/ WriterRead
    \/ WriterDrainRead
    \/ WriterWrite
    \/ WriterFlush
    \/ \E q \in QueueSizes : Stopped /\ session = 0 /\ InitFile("s1", q)
    \/ InitSpawn
    \/ \E op \in {"shutdown", "reset"} : ShutdownEnter(op)
    \/ ShutdownStore
    \/ ShutdownJoin

SpecStop ==
    /\ Init /\ [][NextStop]_vars
    /\ WF_vars(WriterLoop) /\ WF_vars(WriterRead) /\ WF_vars(WriterDrainRead)
    /\ WF_vars(WriterWrite) /\ WF_vars(WriterFlush)
    /\ WF_vars(ShutdownStore) /\ WF_vars(ShutdownJoin)

(* ============================================================== claims *)
\* records accepted in the current session
SessIds == {id \in Logged : Rec(id).session = session /\ Rec(id).kind = "log"}

\* number of lines of a sink's output that carry the message of record id
Count(out, id) == Cardinality({i \in DOMAIN out : out[i].msg = id})

\* the lines the sinks wrote in the current session
SessLines(s) ==
    SelectSeq(sinkOut[s], LAMBDA l : l.msg = NoId \/ Rec(l.msg).session = session)

\* a line is one whole record: level, message and timestamp of the same record
Whole(l) == l.msg \in Logged /\ l.ts = l.msg /\ l.level = Rec(l.msg).level

\* shutdown() (or reset()) of the session has returned
ShutdownReturned == session > 0 /\ pc[Main] = "idle" /\ ~running_ /\ queue_.gen = 0

\* no reservation of the session wrapped onto a slot used before
NoOverflow == \A id \in SessIds : Rec(id).index < sessCap

\* every record of the session was logged after init() had returned
AllAttached == \A id \in SessIds : Rec(id).attached

\* the lines of sink s carry the records of every thread in the order logged
PerProducerOrder(s) ==
    \A a, b \in DOMAIN sinkOut[s] :
        (a < b /\ sinkOut[s][a].msg \in SessIds /\ sinkOut[s][b].msg \in SessIds
               /\ sinkOut[s][a].msg.t = sinkOut[s][b].msg.t)
            => sinkOut[s][a].msg.n < sinkOut[s][b].msg.n

\* C1: every record published before the writer thread observed the stop
\* signal is in the output of the sinks when shutdown() has returned.  Stated
\* for the records logged after init() returned, in a session that stayed
\* within the capacity of the queue.
C1_DrainOnShutdown ==
    (ShutdownReturned /\ NoOverflow)
        => \A id \in atStop : Rec(id).attached
              => \A s \in Range(sessSinks) : Count(sinkOut[s], id) >= 1

\* C2: with fewer records than the capacity of the queue, every record log()
\* accepted is written exactly once, the records of a thread in the order
\* logged.  "Eventually" is read at the end of the session: shutdown() was
\* called after the log() calls had returned, and has returned.
C2_NoLossUnderCapacity ==
    (ShutdownReturned /\ ~stopRace /\ Cardinality(SessIds) < sessCap)
        => \A s \in Range(sessSinks) :
              /\ \A id \in SessIds : Count(sinkOut[s], id) = 1
              /\ PerProducerOrder(s)

C4_RenderOnce == \A id \in Ids : renders[id] <= 1

\* C5: the lines of a sink never carry a record after a record that was
\* reserved later
C5_ReservationOrder ==
    \A s \in Sinks : \A a, b \in DOMAIN sinkOut[s] :
        (a < b /\ sinkOut[s][a].msg \in Logged /\ sinkOut[s][b].msg \in Logged)
            => Rec(sinkOut[s][a].msg).index <= Rec(sinkOut[s][b].msg).index

(* --------------------------------------------- claims on levels and sinks *)
\* the records of direct calls on a sink
DirectIds == {id \in Logged : Rec(id).kind = "direct"}

\* the session's records were logged between init() and shutdown(), fit the
\* queue, and shutdown() has returned
CleanStop == ShutdownReturned /\ ~stopRace /\ AllAttached /\ NoOverflow

\* sink s belongs to the session's collection, is not dedicated and its own
\* level lets a record of level lvl through
Accepting(s, lvl) == s \in Range(sessSinks) /\ ~dedicated[s] /\ min_level[s] <= lvl

\* C6: a broadcast record below the global level (as it was when log() was
\* called) is in no sink's output; no call at or above the global level on a
\* running logger is rejected; and when the session has been shut down the
\* sinks that filter nothing hold every accepted record, in the order logged
C6_GlobalLevelFilter ==
    /\ "none" \notin rejected
    /\ \A s \in Sinks : \A i \in DOMAIN sinkOut[s] :
          LET id == sinkOut[s][i].msg
          IN (id \in Logged /\ Rec(id).kind = "log") => Rec(id).level >= Rec(id).glevel
    /\ CleanStop
          => \A s \in Range(sessSinks) : Accepting(s, TRACE)
                => /\ \A id \in SessIds : Count(sinkOut[s], id) = 1
                   /\ PerProducerOrder(s)

C6_Witness ==
    /\ CleanStop
    /\ "level" \in rejected
    /\ Cardinality(SessIds) = 2
    /\ \A id \in SessIds : Rec(id).glevel = WARN
    /\ Accepting("s1", TRACE)
    /\ Len(sinkOut["s1"]) = 2

\* C7: only a call made on a running logger with a level at or above the
\* global level has any effect: every record that went on to the queue met
\* both conditions, the queue's reservations are exactly those of such calls,
\* and every line of the sinks' output is the record of one
C7_LogNoOp ==
    /\ \A id \in Logged :
          Rec(id).kind = "log" => Rec(id).running /\ Rec(id).level >= Rec(id).glevel
    /\ queue_.gen # 0
          => queue_.reserved = Cardinality({id \in SessIds : Rec(id).index # NoIndex})
    /\ \A s \in Sinks : \A i \in DOMAIN sinkOut[s] : sinkOut[s][i].msg \in Logged

C7_Witness ==
    /\ rejected = {"stopped", "level"}
    /\ queue_.gen # 0
    /\ queue_.reserved = 1
    /\ Cardinality(SessIds) = 1
    /\ pc["p1"] = "idle"

\* C8: when the session has been shut down, every accepted broadcast record is
\* once in the output of every non-dedicated sink of the collection whose level
\* accepts it, and never more than once in any sink
C8_FanOut ==
    /\ \A id \in SessIds, s \in Sinks : Count(sinkOut[s], id) <= 1
    /\ CleanStop
          => \A id \in SessIds, s \in Sinks :
                Accepting(s, Rec(id).level) => Count(sinkOut[s], id) = 1

C8_Witness ==
    /\ CleanStop
    /\ Len(sessSinks) = 2
    /\ \E id \in SessIds : \A s \in Sinks :
          Accepting(s, Rec(id).level) /\ Count(sinkOut[s], id) = 1

LoggerState ==
    <<running_, queue_, sinks_, read_index_, log_level_, writer, sinkOut, flushed,
      life.threads, life.queues>>

ReturnedEarly(op) == life.done = [op |-> op, early |-> TRUE]

\* C11: shutdown() is idempotent.  A call on a logger that is not running
\* (shut down before, or never initialised) never goes past its first test,
\* and the call that returns there has joined no thread, freed no queue,
\* written nothing and left every member of the logger as it was.
C11_ShutdownIdempotent ==
    [][/\ (mop = "none" /\ mop' = "shutdown") => running_
       /\ (ReturnedEarly("shutdown")' /\ life'.done # life.done)
              => UNCHANGED LoggerState]_vars

\* a second shutdown() has returned, after a session that wrote a line and
\* after a sink was added to the stopped logger
C11_Witness ==
    /\ ReturnedEarly("shutdown")
    /\ session = 1 /\ ~running_ /\ queue_.gen = 0
    /\ sinkOut["s1"] # <<>>
    /\ sinks_ # <<>>
\* C12: when reset() has returned -- from whatever state it was called in --
\* the logger is not running, has no writer thread and no queue, its sink
\* collection is empty and its global level is TRACE.
C12_ResetPostcondition ==
    (life.done.op = "reset" /\ pc[Main] = "idle" /\ Alive)
        => /\ ~running_
           /\ writer.pc = "none" /\ life.threads = 0
           /\ queue_.gen = 0 /\ life.queues = 0
           /\ sinks_ = <<>>
           /\ log_level_ = TRACE
\* init() was never called on a logger that was still running
ProperUse == Alive /\ life.queues <= 1

\* the line a sink wrote in this step, if it wrote one
WroteLine(s) == sinkOut'[s] # sinkOut[s]
LastLine(s) == sinkOut'[s][Len(sinkOut'[s])]

\* C13: init() after shutdown() or reset() starts a new session.  Every line
\* a sink writes carries a record of the session under way (none of an
\* earlier session is delivered again), and when the new session was shut
\* down, every sink configured for it holds each record of the session once.
\* The delivery is stated for a thread that logs between init() and
\* shutdown() and stays within the capacity of the queue.
C13_NewSession ==
    [][ProperUse' =>
         /\ \A s \in Sinks :
               (WroteLine(s) /\ LastLine(s).msg \in Logged)
                   => Rec(LastLine(s).msg).session = session
         /\ (ShutdownReturned /\ ~stopRace /\ AllAttached /\ NoOverflow)'
               => \A s \in Range(sessSinks') :
                     \A id \in SessIds' : Count(sinkOut'[s], id) = 1]_vars

\* two sessions were run and shut down, one record each, both in the file
C13_Witness ==
    /\ ProperUse /\ ShutdownReturned /\ session = 2
    /\ sessSinks = <<"s1">>
    /\ Len(recs["p1"]) = 2
    /\ recs["p1"][1].session = 1 /\ recs["p1"][2].session = 2
    /\ Len(sinkOut["s1"]) = 2
    /\ sinkOut["s1"][1].msg = [t |-> "p1", n |-> 1]
    /\ sinkOut["s1"][2].msg = [t |-> "p1", n |-> 2]
\* C14: over any sequence of init / shutdown / reset calls the logger never
\* has more than one writer thread alive, nor more than one queue.
C14_OneWriterOneQueue == life.threads <= 1 /\ life.queues <= 1
\* C15: no error raised on the writer thread escapes the writer loop: after
\* an exception was thrown under write_log_entry the process goes on, with
\* its writer thread.
C15_WriterSurvives == life.thrown # "none" => (Alive /\ writer.pc # "none")

\* records logged with a format string that does not fit its arguments
Malformed == {id \in Logged : Rec(id).kind = "malformed"}

\* C16: a record whose rendering fails still produces a line: once the
\* writer thread has invoked the formatter of such a record, the first sink
\* of the collection holds one line for it.
C16_MarkedLine ==
    \A id \in Malformed :
        (renders[id] >= 1 /\ sinks_ # <<>>) => Count(sinkOut[sinks_[1]], id) = 1
\* C18: a file sink whose path cannot be opened signals the error to the
\* caller, and init(log_file, queue_size) does not complete: called on a
\* logger that is not running, it leaves the logger not running, without a
\* queue and without a writer thread.
C18_InitDoesNotComplete ==
    [][(/\ life'.done.op = "init_throws" /\ life'.done # life.done
        /\ ~running_ /\ queue_.gen = 0 /\ writer.pc = "none")
          => /\ ~running_' /\ queue_'.gen = 0 /\ writer'.pc = "none"
             /\ life'.threads = 0 /\ life'.queues = 0
             /\ pc'[Main] = "idle"]_vars

\* the constructor has thrown in an init() that followed a whole session
C18_Witness ==
    /\ life.done.op = "init_throws"
    /\ session = 1 /\ sinkOut["s1"] # <<>>
    /\ ~running_ /\ queue_.gen = 0 /\ writer.pc = "none"
\* the lines that are in some file of the log directory
OnDisk ==
    Range(disk.base.lines)
        \cup UNION {Range(disk.rot[k].lines) : k \in DOMAIN disk.rot}
        \cup UNION {Range(disk.dated[d].lines) : d \in DOMAIN disk.dated}

\* C17: a rotation or rollover whose rename fails, and whose fallback fails
\* too, costs no line: the sink goes on writing (no exception leaves the
\* write), and every line written so far is still in a file.
C17_NoLineLost ==
    /\ disk.kind = "rotating" => disk.thrown # "rename"
    /\ (disk.kind = "daily" /\ disk.thrown = "none")
          => \A i \in DOMAIN disk.written : disk.written[i] \in OnDisk

\* the base is at most one record over the limit
BaseWithinLimit ==
    disk.written # <<>>
        => FileSize(disk.base.lines)
              <= disk.max_file_size + disk.written[Len(disk.written)].len

\* the records written before the last one exceeded the limit together
LimitExceededBefore ==
    /\ Len(disk.written) >= 2
    /\ FileSize(SubSeq(disk.written, 1, Len(disk.written) - 1)) > disk.max_file_size

\* C19 as claimed: after any sequence of writes the base never exceeds the
\* limit by more than one record, and <stem>_1 exists once the records
\* written exceeded the limit and one more was written; for every max_files
C19_SizeBoundAndSibling ==
    disk.kind = "rotating"
        => /\ BaseWithinLimit
           /\ LimitExceededBefore => disk.rot[1].exists

\* C19 amended: the bound on the base for every max_files, the sibling for
\* max_files >= 2 (with max_files = 1 a rotation keeps nothing)
C19_SiblingWithTwoFiles ==
    disk.kind = "rotating"
        => /\ BaseWithinLimit
           /\ (LimitExceededBefore /\ disk.max_files >= 2) => disk.rot[1].exists

\* a sink that keeps two files has rotated and its base is over the limit
C19_Witness ==
    /\ disk.kind = "rotating" /\ disk.max_files = 2
    /\ LimitExceededBefore
    /\ disk.rot[1].exists
    /\ FileSize(disk.base.lines) > disk.max_file_size

\* C20: after any number of rotations with max_files = N >= 1 the sink's
\* files are the base and <stem>_1 .. <stem>_(N-1): no sibling has an index
\* of N or more, <stem>_k holds what the base held at the k-th most recent
\* rotation, each of the N-1 most recent rotations is kept, and every line
\* written is in the base or was in the base at a rotation.
C20_RotationFiles ==
    disk.kind = "rotating"
        => /\ \A k \in DOMAIN disk.rot :
                 disk.rot[k].exists
                     => /\ k <= disk.max_files - 1
                        /\ k <= Len(disk.rotations)
                        /\ disk.rot[k].lines = disk.rotations[k]
           /\ \A k \in 1..(disk.max_files - 1) :
                 k <= Len(disk.rotations) => disk.rot[k].exists
           /\ \A i \in DOMAIN disk.written :
                 \/ disk.written[i] \in Range(disk.base.lines)
                 \/ \E j \in DOMAIN disk.rotations :
                       disk.written[i] \in Range(disk.rotations[j])
           /\ \A d \in DOMAIN disk.dated : ~disk.dated[d].exists

\* three rotations of a sink that keeps three files: the content of the
\* oldest rotation is gone, the two latest are in <stem>_1 and <stem>_2
C20_Witness ==
    /\ disk.kind = "rotating" /\ disk.max_files = 3
    /\ Len(disk.rotations) = 3
    /\ disk.rot[1].exists /\ disk.rot[2].exists
    /\ disk.rotations[3] # <<>>
    /\ \A i \in DOMAIN disk.rotations[3] : disk.rotations[3][i] \notin OnDisk

\* the lines a write step hands to the sink
NewLines == SubSeq(disk'.written, Len(disk.written) + 1, Len(disk'.written))
\* a running DailyFileSink takes a new date in this step
Rollover == disk.kind = "daily" /\ disk'.kind = "daily" /\ disk'.date # disk.date

\* C21: when a DailyFileSink sees a date different from its current_date_,
\* the whole content the base file had ends up verbatim in the dated file of
\* the old date, the base file is empty before the first record of the new
\* date is written (it holds nothing but the record of the write that saw the
\* new date), and no record handed over on another day is in the new base
C21_DailyRollover ==
    [][Rollover =>
          /\ disk'.dated[disk.date] = [exists |-> TRUE, lines |-> disk.base.lines]
          /\ disk'.base = [exists |-> TRUE, lines |-> NewLines]
          /\ \A i \in DOMAIN disk'.base.lines :
                disk'.days[disk'.base.lines[i].n] = disk'.date]_vars

\* the sink saw the second day: the base is empty, the lines of the first
\* day are in the dated file
C21_Witness ==
    /\ disk.kind = "daily" /\ disk.date = 2
    /\ disk.base = EmptyFile
    /\ disk.dated[1].exists /\ disk.dated[1].lines = disk.written
    /\ Len(disk.written) >= 2

\* C22: a daily rollover never overwrites an existing dated file: if
\* <stem>_<date> exists when the base is rolled over to that date, the lines
\* of the existing file are still in a file of the directory afterwards,
\* together with the rolled-over content of the base
C22_ExistingDatedKept ==
    [][Rollover /\ disk.dated[disk.date].exists =>
          Range(disk.dated[disk.date].lines) \cup Range(disk.base.lines)
              \subseteq OnDisk']_vars

\* the day the base file was last modified: the day its last line was written
BaseDay == disk.days[disk.base.lines[Len(disk.base.lines)].n]
\* a DailyFileSink is constructed over a base file last modified before today
RestartOverOldBase ==
    /\ disk.kind = "none" /\ disk'.kind = "daily"
    /\ disk.base.lines # <<>> /\ BaseDay # disk.today

\* C23: a DailyFileSink constructed over an existing base file whose
\* last-modified date is not today rolls that file over before it accepts a
\* write: the old content is in the dated file of the old date and the base
\* file is empty when the construction is over
C23_RolloverAtRestart ==
    [][RestartOverOldBase =>
          /\ disk'.base = EmptyFile
          /\ Range(disk.base.lines) \subseteq Range(disk'.dated[BaseDay].lines)]_vars

\* a write that saw no new date
WriteWithinDay ==
    /\ disk.kind = "daily" /\ disk'.kind = "daily"
    /\ disk'.date = disk.date /\ Len(disk'.written) > Len(disk.written)
\* the content the base had left the base before the line was written
SizeRotated == disk.base.lines # <<>> /\ disk'.base.lines = NewLines

\* C24: a DailyFileSink rotates on size within a day if and only if
\* max_file_size > 0 and the base file has reached it; with
\* max_file_size = 0 all records of the day stay in the base file
C24_DailySizeRotation ==
    [][WriteWithinDay =>
          (SizeRotated <=>
              disk.max_file_size > 0
                  /\ FileSize(disk.base.lines) >= disk.max_file_size)]_vars

\* the next step of a producer inside log()
OwnStep(p) ==
    LogReserve(p) \/ LogStoreLevel(p) \/ LogStoreFormatter(p) \/ LogPublish(p)
\* records reserved and not yet read by the writer thread
Backlog == queue_.reserved - read_index_

\* C25: log() never waits for the writer thread: wherever a producer stands
\* inside log() -- before the reservation, the stores into the slot or the
\* publish -- its next step can be taken at once, whatever the writer
\* thread has read, also when the unread backlog is at or above the capacity
C25_LogNeverWaits ==
    \A p \in Producers :
        pc[p] \in InFlight /\ ~QueueGone(p) => ENABLED OwnStep(p)

\* both producers are back from log() with more records reserved than the
\* queue has slots, none of them read
C25_Witness ==
    /\ queue_.gen # 0 /\ read_index_ = 0
    /\ Backlog > queue_.cap
    /\ \A p \in Producers : pc[p] = "idle"
    /\ \A p \in Producers : \A i \in DOMAIN recs[p] : recs[p][i].published

\* the slots of the batch read() handed to the writer thread that it has not
\* yet passed to the sinks
SlotsInHand ==
    IF writer.pc \in {"w_write", "d_write"}
    THEN (writer.ptr + writer.i)..(writer.ptr + writer.count - 1)
    ELSE {}
\* the producer has reserved a slot of the queue and is storing into it
Storing(p) ==
    /\ pc[p] \in {"log_level", "log_fmt", "log_publish"}
    /\ loc[p].gen = queue_.gen /\ queue_.gen # 0

\* C26: no producer writes a slot while the writer thread reads or renders
\* the record held in it: the slot a producer stores into is never one of
\* the slots the writer thread has in hand
C26_NoOverwriteWhileRead ==
    \A p \in Producers :
        Storing(p) => SlotOf(queue_, loc[p].index) \notin SlotsInHand

\* the slot holds one record, stored completely and published: the index it
\* was published with, the level, the closure and the timestamp are those of
\* the same record, and that record's log() has called publish
PublishedRecord(entry) ==
    /\ entry.data_index # NoIndex
    /\ entry.fmt \in Logged
    /\ Rec(entry.fmt).published
    /\ Rec(entry.fmt).index = entry.data_index
    /\ entry.ts = entry.fmt
    /\ entry.level = Rec(entry.fmt).level

\* C27: the writer thread never processes a slot that is reserved but not
\* yet published: whenever it hands an entry of its batch to the sinks, the
\* entry is a published record whose level, closure and timestamp have all
\* been stored
C27_OnlyPublishedRecords ==
    [][sinkOut' # sinkOut =>
          PublishedRecord(queue_.slots[writer.ptr + writer.i])]_vars

\* the writer thread is between read() and the flush of its batch: it calls
\* write and flush of the sinks
WriterInSinks == writer.pc \in {"w_write", "w_flush", "d_write", "d_flush"}
\* a sink wrote or flushed in this step
SinkWorked == sinkOut' # sinkOut \/ flushed' # flushed
\* the collection lets go of a sink in this step: the sink is destroyed
SinkReleased == \E s \in Range(sinks_) : s \notin Range(sinks_')
\* init() is called on a logger that is still running (C14)
InitOnRunning == session' # session /\ ~Stopped

RotatingWriteStep ==
    /\ disk.kind = "rotating" /\ disk'.kind = "rotating"
    /\ Len(disk'.written) > Len(disk.written)

\* C29: a RotatingFileSink rotates before a write if and only if
\* max_file_size > 0 and current_file_size_ >= max_file_size; with
\* max_file_size = 0 no write triggers a rotation
C29_RotatesIffEnabledAndDue ==
    [][RotatingWriteStep =>
          (Len(disk'.rotations) > Len(disk.rotations) <=>
              disk.max_file_size > 0 /\ disk.size >= disk.max_file_size)]_vars

\* the files of a RotatingFileSink: 0 is the base, k is <stem>_k
FileSlots == 0..(MaxFiles + 1)
LinesOf(d, k) == IF k = 0 THEN d.base.lines ELSE d.rot[k].lines
\* the oldest file the sink retains: <stem>_(max_files-1), the base itself
\* when max_files = 1
OldestSlot == disk.max_files - 1
\* the process stops inside a rotation in this step
StopsInRotation == disk.thrown = "none" /\ disk'.thrown = "stopped"

\* C30: when the process stops after any single step of a size rotation --
\* close, removal of the oldest file, each rename from the highest index
\* down, reopen -- no line is in two files, every file left holds the
\* content of exactly one file as it was before the rotation (or is the new,
\* empty base), and only lines of the oldest retained file are missing
C30_CrashInRotation ==
    [][StopsInRotation =>
          /\ \A a, b \in FileSlots :
                a # b => Range(LinesOf(disk', a)) \cap Range(LinesOf(disk', b)) = {}
          /\ \A a \in FileSlots :
                \/ LinesOf(disk', a) = <<>>
                \/ \E b \in FileSlots : LinesOf(disk', a) = LinesOf(disk, b)
          /\ OnDisk \ OnDisk' \subseteq Range(LinesOf(disk, OldestSlot))]_vars

\* the process stopped between the renames of a sink that keeps three
\* files: <stem>_1 has moved to <stem>_2, the base still has its name and its
\* content, and only the lines of the former <stem>_2 are gone
C30_Witness ==
    /\ disk.thrown = "stopped" /\ disk.max_files = 3
    /\ disk.base.exists /\ disk.base.lines # <<>>
    /\ ~disk.rot[1].exists
    /\ disk.rot[2].exists /\ disk.rot[2].lines # <<>>
    /\ \E i \in DOMAIN disk.written : disk.written[i] \notin OnDisk

\* a write or a rotation check of a running DailyFileSink
DailyStep ==
    /\ disk.kind = "daily" /\ disk'.kind = "daily"
    /\ disk'.written # disk.written \/ disk'.date # disk.date

\* C31: on every write / check_rotation of a DailyFileSink: if today's date
\* equals current_date_ no file is renamed, truncated or reopened (the base
\* only grows by the line written); if it differs exactly one rollover is
\* executed -- the base goes to the dated file of the old date, no other
\* file changes -- and current_date_ is today's date afterwards; a second
\* check on the same date does nothing
C31_RolloverOncePerDate ==
    [][DailyStep =>
          /\ disk.today = disk.date =>
                /\ disk'.dated = disk.dated /\ disk'.rot = disk.rot
                /\ disk'.open = disk.open /\ disk'.date = disk.date
                /\ disk'.base = [exists |-> TRUE, lines |-> disk.base.lines \o NewLines]
          /\ disk.today # disk.date =>
                /\ disk'.date = disk.today
                /\ disk'.dated = [disk.dated EXCEPT ![disk.date] = disk.base]
                /\ disk'.rot = disk.rot
                /\ disk'.base = [exists |-> TRUE, lines |-> NewLines]
          /\ DailyCheckRotation(disk', "none") = disk']_vars

\* the sink rolled over to the second day and wrote twice on it: the second
\* write found the date unchanged and appended
C31_Witness ==
    /\ disk.kind = "daily" /\ disk.date = 2 /\ disk.today = 2
    /\ disk.dated[1].exists /\ disk.dated[1].lines # <<>>
    /\ Len(disk.base.lines) >= 2
    /\ \A i \in DOMAIN disk.base.lines : disk.days[disk.base.lines[i].n] = 2

IsPowerOfTwo(n) == \E k \in 0..(2 * CapBits) : n = Pow2(k)

\* C32: for every configured queue size q the capacity init passes to the
\* ring buffer is a power of two that is >= q, and is q when q is a power of
\* two, whichever overload of init was called
C32_CapacityPowerOfTwo ==
    queue_.gen # 0 =>
        /\ IsPowerOfTwo(queue_.cap)
        /\ queue_.cap >= life.queue_size
        /\ IsPowerOfTwo(life.queue_size) => queue_.cap = life.queue_size

\* the writer thread is not inside write_log_entry: it is about to test
\* running_ or to read a batch, has ended, or was never started
BetweenBatches == writer.pc \in {"none", "w_loop", "w_read", "d_read", "w_done"}

\* C33: after the writer thread has written the records of a batch it
\* flushes every sink before it reads the next batch, in the loop and in the
\* drain: whenever it stands outside write_log_entry every line a sink has
\* written is flushed, and so is every line written when shutdown() returns
C33_FlushedAfterBatch ==
    BetweenBatches => \A s \in Sinks : flushed[s] = Len(sinkOut[s])

\* shutdown() has returned after a session in which records were still
\* unread when the writer thread saw the stop: they are written and flushed
C33_Witness ==
    /\ ShutdownReturned /\ writer.pc = "none" /\ atStop # {}
    /\ \E s \in Sinks : Len(sinkOut[s]) >= 2 /\ flushed[s] = Len(sinkOut[s])

\* C34: a log() call racing with shutdown() never touches the queue after
\* shutdown() has freed it: no producer that passed the running_ test
\* reserves, stores into a slot or publishes on a deleted queue
C34_NoUseAfterFree == ~uaf

\* C35: when two threads call shutdown() (or shutdown() and reset()) at the
\* same time on a running logger, the writer thread is joined exactly once
\* and the queue freed exactly once: no thread is joined and no queue
\* deleted that the other caller has already released
C35_ReleasedOnce == life.threads >= 0 /\ life.queues >= 0

\* C36: the sink collection is never modified while the writer thread
\* iterates it: no step changes sinks_ while the writer thread is inside
\* write_log_entry, between the first entry of a batch and the flush
C36_SinksStableWhileIterated ==
    [][sinks_' # sinks_ => ~WriterInSinks]_vars

\* the main thread is inside shutdown() on a logger it found running
InShutdown == pc[Main] \in {"sd_store", "sd_join"}

\* C37: shutdown() on a running logger always returns: the drain loop
\* reaches an empty read, the writer thread ends and the join completes,
\* whatever the producers do meanwhile
C37_ShutdownReturns == InShutdown ~> (pc[Main] = "idle" /\ writer.pc = "none")

\* shutdown() has returned although a log() call was under way when it
\* cleared running_
C37_Witness == ShutdownReturned /\ stopRace /\ writer.pc = "none"

\* the lines of sink s that carry a record of log()
LogLines(s) == {i \in DOMAIN sinkOut[s] : sinkOut[s][i].msg # NoId}

\* C38: the global level is applied when log() is called and at no other
\* time: every line of the sink is a record log() accepted, written once,
\* whose level was at or above the global level of that moment, whatever the
\* level is now; and when the session has been shut down every accepted
\* record is in the sink, also those below the level set since
C38_LevelAppliedAtCall ==
    /\ \A i \in LogLines("s1") :
          LET id == sinkOut["s1"][i].msg
          IN /\ id \in Logged
             /\ Rec(id).level >= Rec(id).glevel
             /\ Count(sinkOut["s1"], id) = 1
    /\ Cardinality(LogLines("s1")) <= Accepted
    /\ CleanStop => \A id \in SessIds : Count(sinkOut["s1"], id) = 1

\* a call was rejected for its level; a record accepted while the level was
\* low is in the sink although the level has been raised above it since
C38_Witness ==
    /\ CleanStop
    /\ "level" \in rejected
    /\ log_level_ = WARN
    /\ \E id \in SessIds :
          /\ Rec(id).level = DEBUG
          /\ Rec(id).glevel = TRACE
          /\ Count(sinkOut["s1"], id) = 1

\* the steps of a shutdown() call of the main thread: its first test on a
\* running logger, its body, and its return
ShutdownCalled == pc[Main] = "idle" /\ pc'[Main] = "sd_store" /\ mop' = "shutdown"
ShutdownBody == pc[Main] \in {"sd_store", "sd_join"} /\ mop = "shutdown"
ShutdownDone == pc[Main] = "sd_join" /\ mop = "shutdown" /\ pc'[Main] = "idle"
ShutdownEarly == ReturnedEarly("shutdown")' /\ life'.done # life.done

\* init(queue_size) is called right after a shutdown() that ran its body
InitSizeAfterShutdown ==
    /\ life.done = [op |-> "shutdown", early |-> FALSE]
    /\ pc[Main] = "idle" /\ pc'[Main] = "init_spawn"
    /\ sinks_' = sinks_

\* C39: shutdown() on a running logger leaves the sink collection empty and
\* the global level as it was, shutdown() on a logger that is not running
\* leaves the sink collection (and the level) as they were, and
\* init(queue_size) called after a shutdown() with no add_sink in between
\* starts a session with no sinks, in which nothing is written
C39_ShutdownFrame ==
    [][/\ (ShutdownCalled \/ ShutdownBody) => log_level_' = log_level_
       /\ ShutdownDone => sinks_' = <<>>
       /\ ShutdownEarly => (sinks_' = sinks_ /\ log_level_' = log_level_)
       /\ InitSizeAfterShutdown => (sinks_' = <<>> /\ sessSinks' = <<>>)
       /\ sinks_ = <<>> => sinkOut' = sinkOut]_vars

\* a second session was started by init(queue_size) after the shutdown() of
\* a session with a file sink: its record was published and read by the
\* writer thread, and is in no sink
C39_Witness ==
    /\ Alive /\ ShutdownReturned /\ ~stopRace /\ session = 2
    /\ sessSinks = <<>> /\ sinks_ = <<>>
    /\ Len(recs["p1"]) = 2
    /\ recs["p1"][1].session = 1 /\ recs["p1"][2].session = 2
    /\ recs["p1"][2].published
    /\ Len(sinkOut["s1"]) = 1 /\ sinkOut["s2"] = <<>>
    /\ log_level_ = WARN

\* a RotatingFileSink is constructed in this step
RotatingMade == disk.kind = "none" /\ disk'.kind = "rotating"
\* the size of the line handed to write() in this step
WrittenLen == disk'.written[Len(disk'.written)].len

\* C40: current_file_size_ of a RotatingFileSink is the number of bytes of
\* the base file: the size of the file it finds when it is constructed, the
\* line's length plus one more with each write, and 0 after a rotation (so
\* the size of the one line written since, after a write that rotated)
C40_SizeIsBaseSize ==
    [][disk'.kind = "rotating" =>
          /\ disk'.size = FileSize(disk'.base.lines)
          /\ RotatingMade => disk'.size = FileSize(disk.base.lines)
          /\ RotatingWriteStep =>
                /\ disk'.size = (IF Due THEN 0 ELSE disk.size) + WrittenLen
                /\ Due => /\ rotate_files(disk, "none").size = 0
                          /\ rotate_files(disk, "none").base = EmptyFile]_vars

\* the sink has rotated twice and has written two lines, three bytes, to
\* the base since
C40_Witness ==
    /\ disk.kind = "rotating"
    /\ Len(disk.rotations) >= 2
    /\ Len(disk.base.lines) = 2
    /\ disk.size = FileSize(disk.base.lines) /\ disk.size = 3
====
